---------------------------- MODULE Spec2Model ----------------------------
(***************************************************************************)
(* A model of the pyHydrabus protocol handlers MMC, SDIO, NFC and SWD      *)
(* (src/pyHydrabus/mmc.py, sdio.py, nfc.py, swd.py).                       *)
(*                                                                         *)
(* One handler object talks to one adapter over a serial byte stream.      *)
(* The state holds the handler's fields, a record of the last call (its    *)
(* arguments, the byte strings it wrote, the byte strings it read, what it *)
(* printed or logged, what it returned) and the adapter's side of the      *)
(* exchange.  Byte strings are sequences of integers 0..255.               *)
(*                                                                         *)
(* Integers of the model checker are 32-bit signed, so every 32-bit word   *)
(* the model draws as an input has its top bit clear.                      *)
(***************************************************************************)
EXTENDS Integers, Sequences, FiniteSets, TLC

VARIABLES
    handler,    \* which handler class was constructed: "MMC", "SDIO", "NFC", "SWD"
    config,     \* self._config
    config0,    \* history: self._config when the last call was entered
    call,       \* the last call: [name, args]
    tx,         \* the byte strings the last call passed to _hydrabus.write, in order
    rx,         \* the byte strings the last call got from _hydrabus.read, in order
    out,        \* what the last call printed or logged, in order
    ret,        \* what the last call returned or raised: [kind, val]
    store,      \* the simulated adapter's MMC blocks: block number -> 512 bytes
    written,    \* history: block number -> payload of the last write() that returned True
    given,      \* history: the last valid value each SDIO setter was given, <<>> when none
    rf,         \* self._rf (MMC and NFC handlers; 0 where the handler has none)
    mode,       \* self._mode (MMC and NFC handlers; 0 where the handler has none)
    stack,      \* SWD: the read_dp / write_dp invocations the running call has yet to make
    wire,       \* SWD: the RawWire primitives the running call invoked and that ran, in order
    txns,       \* SWD history: the read_dp / write_dp invocations made, with their status
    waits,      \* SWD history: how many WAIT acknowledgments the running call received
    held,       \* SWD: the value the running call will return
    depth,      \* SWD: for each invocation of `stack`, how deep in nested calls it runs
    prim,       \* SWD: how many nested calls a RawWire primitive takes, itself included
    builtin     \* SWD: how many nested calls the interpreter counts for a call of a built-in

swdvars == <<stack, wire, txns, waits, held, depth>>

vars == <<handler, config, config0, call, tx, rx, out, ret, store, written, given,
          rf, mode, stack, wire, txns, waits, held, depth, prim, builtin>>

-----------------------------------------------------------------------------
(* Bounds of the model. *)

\* Seeds of the adapter's reply patterns.
MaxSeed == 1

\* WAIT acknowledgments the adapter gives within one SWD call.
MaxWaits == 2

\* Nested calls the interpreter allows before it raises RecursionError
\* (sys.getrecursionlimit(), 1000 by default).
MaxDepth == 9

\* Nested calls a RawWire primitive (write, read_bit, read, clocks,
\* write_bits) takes at most, itself included.
MaxPrim == 2

-----------------------------------------------------------------------------
(* Python integer and bytes primitives, as the handlers use them. *)

\* b ** e; the recursions of this section are functions of their arguments
PowOf[b \in Int, e \in Nat] == IF e = 0 THEN 1 ELSE b * PowOf[b, e - 1]
Pow(b, e) == PowOf[b, e]

\* Python's integers have no bound, and a register of the target holds 32
\* bits.  An integer n from 2^31 up to 2^32 - 1 is carried here as n - 2^32,
\* the same 32 bits read with a sign: n % 256 and n \div 256 then give its
\* bytes as they do for n.  Low31 is the low 31 bits of a word, Top its bit
\* 31, and Word32 the word of a bit 31 and low 31 bits.
Low31(n) == IF n < 0 THEN (n + 2147483647) + 1 ELSE n
Top(n) == IF n < 0 THEN 1 ELSE 0
Word32(top, low) == IF top = 1 THEN (low - 2147483647) - 1 ELSE low

\* a & b on integers from 0 up to 2^32 - 1
BitAndOf[a \in Int, b \in Int] ==
    IF a < 0 \/ b < 0
    THEN Word32(Top(a) * Top(b), BitAndOf[Low31(a), Low31(b)])
    ELSE IF a = 0 \/ b = 0 THEN 0
    ELSE (a % 2) * (b % 2) + 2 * BitAndOf[a \div 2, b \div 2]
BitAnd(a, b) == BitAndOf[a, b]

\* a | b on integers from 0 up to 2^32 - 1
BitOrOf[a \in Int, b \in Int] ==
    IF a < 0 \/ b < 0
    THEN Word32(1, BitOrOf[Low31(a), Low31(b)])
    ELSE IF a = 0 THEN b
    ELSE IF b = 0 THEN a
    ELSE (IF a % 2 = 1 \/ b % 2 = 1 THEN 1 ELSE 0) + 2 * BitOrOf[a \div 2, b \div 2]
BitOr(a, b) == BitOrOf[a, b]

\* a & ~(m) on a non-negative a and a non-negative mask m
AndNot(a, m) == a - BitAnd(a, m)

\* a << k, for k up to 30 and a result below 2^32
Shl(a, k) ==
    IF k = 0 \/ a < Pow(2, 31 - k)
    THEN a * Pow(2, k)
    ELSE Word32(1, (a - Pow(2, 31 - k)) * Pow(2, k))

\* bin(n).count("1")
PopCountOf[n \in Int] ==
    IF n < 0 THEN 1 + PopCountOf[Low31(n)]
    ELSE IF n = 0 THEN 0 ELSE (n % 2) + PopCountOf[n \div 2]
PopCount(n) == PopCountOf[n]

\* bit k of n, k from 0 to 30
Bit(n, k) == (n \div Pow(2, k)) % 2

\* whether n.to_bytes(len, ...) succeeds (it raises OverflowError otherwise)
Fits(n, len) == n >= 0 /\ n < Pow(256, len)

\* n.to_bytes(len, byteorder="big")
ToBytesBig(n, len) == [i \in 1..len |-> (n \div Pow(256, len - i)) % 256]

\* n.to_bytes(len, byteorder="little")
ToBytesLittle(n, len) == [i \in 1..len |-> (n \div Pow(256, i - 1)) % 256]

\* int.from_bytes(bs, byteorder="little")
RECURSIVE FromBytesLittle(_)
FromBytesLittle(bs) ==
    IF Len(bs) = 0 THEN 0
    ELSE IF Len(bs) = 4 /\ bs[4] >= 128
    THEN Word32(1, FromBytesLittle(<< bs[1], bs[2], bs[3], bs[4] - 128 >>))
    ELSE Head(bs) + 256 * FromBytesLittle(Tail(bs))

\* int.from_bytes(bs, byteorder="big")
RECURSIVE FromBytesBig(_)
FromBytesBig(bs) ==
    IF Len(bs) = 0 THEN 0
    ELSE bs[Len(bs)] + 256 * FromBytesBig(SubSeq(bs, 1, Len(bs) - 1))

\* the concatenation of a sequence of byte strings: what went over the wire
RECURSIVE Flatten(_)
Flatten(ss) == IF Len(ss) = 0 THEN <<>> ELSE Head(ss) \o Flatten(Tail(ss))

\* results of a call
RetNone == [kind |-> "none", val |-> 0]
RetBool(b) == [kind |-> "bool", val |-> b]
RetBytes(bs) == [kind |-> "bytes", val |-> bs]
RetInt(n) == [kind |-> "int", val |-> n]
RetRaise(what, n) == [kind |-> "raise", val |-> <<what, n>>]
\* the call has not returned yet
RetPending == [kind |-> "pending", val |-> 0]

Call(name, args) == [name |-> name, args |-> args]

\* history of the values the SDIO setters were given: none yet
NoneGiven == [bus_width |-> <<>>, frequency |-> <<>>]

\* history: the setter `name` is given `value`, which counts when it is one
\* of the values the setter accepts
Give(g, name, value, valid) ==
    IF value \in valid THEN [g EXCEPT ![name] = <<value>>] ELSE g

\* the block size of MMC and SDIO block transfers
BlockSize == 512


-----------------------------------------------------------------------------
(* Inputs of the model. *)

\* values a caller gives the bus_width setter
WidthValues == {0, 1, 2, 4, 5}

\* values a caller gives the frequency setter
FreqValues == {0, 1, 2, 3}

\* the byte the adapter answers a configure command with
AckBytes == {0, 1, 255}

\* the status byte the adapter answers a command with
StatusBytes == {0, 1, 255}

\* block numbers a caller reads and writes; 1 (0x00000001) and 16777216
\* (0x01000000) are each other's byte reversal
BlockNums == {1, 16777216}

\* 512-byte payloads a caller writes
Payloads == { [i \in 1..BlockSize |-> (i - 1) % 256],
              [i \in 1..BlockSize |-> 165] }

\* what the simulated adapter holds in a block nobody wrote
BlankBlock == [i \in 1..BlockSize |-> 0]

-----------------------------------------------------------------------------
(* The simulated adapter in MMC mode: it stores the blocks it is written    *)
(* and sends a stored block after answering a read with status 1.  It reads *)
(* the command as it went over the wire.                                    *)

\* the block number of a block command: the 4 bytes after the command byte
AdapterBlockNum(cmd) == FromBytesBig(SubSeq(cmd, 2, 5))

\* the payload of a write command: the 512 bytes after the block number
AdapterPayload(cmd) == SubSeq(cmd, 6, 5 + BlockSize)

\* the adapter's blocks after a command it answered with `status`
AdapterStore(st, cmd, status) ==
    IF cmd[1] = 5 /\ status = 1
    THEN [b \in (DOMAIN st) \cup {AdapterBlockNum(cmd)} |->
             IF b = AdapterBlockNum(cmd) THEN AdapterPayload(cmd) ELSE st[b]]
    ELSE st

\* the block the adapter sends after answering a read command with status 1
AdapterBlock(st, cmd) ==
    IF AdapterBlockNum(cmd) \in DOMAIN st THEN st[AdapterBlockNum(cmd)]
    ELSE BlankBlock

\* the reply bytes the adapter sends: n bytes of a pattern picked by its seed
Reply(n, seed) == [i \in 1..n |-> (seed * 16 + i) % 256]

-----------------------------------------------------------------------------
(* MMC handler, src/pyHydrabus/mmc.py *)

MMC_DEFAULT_CONFIG == 0

\* MMC._configure_port: the exchange with the adapter and its result
MMC_ConfigurePort(cfg, ack) ==
    LET CMD == BitOr(128, cfg) IN
    [tx     |-> << ToBytesBig(CMD, 1) >>,
     rx     |-> << <<ack>> >>,
     out    |-> IF <<ack>> = <<1>> THEN <<>> ELSE << "error: Error setting config." >>,
     result |-> (<<ack>> = <<1>>)]

\* MMC.bus_width getter
MMC_BusWidthGet(cfg) == IF BitAnd(cfg, 1) # 0 THEN 4 ELSE 1

\* MMC_BusWidthUpdate with the test for 4 lost: every value but 1 sets bit 0
Mutant_MMC_BusWidthUpdate(cfg, value) ==
    IF value = 1 THEN [config |-> AndNot(cfg, 1), out |-> <<>>]
    ELSE [config |-> BitOr(cfg, 1), out |-> <<>>]

\* MMC.bus_width setter, the update of self._config and the notice printed
MMC_BusWidthUpdate(cfg, value) ==
    IF value = 1 THEN [config |-> AndNot(cfg, 1), out |-> <<>>]
    ELSE IF value = 4 THEN [config |-> BitOr(cfg, 1), out |-> <<>>]
    ELSE [config |-> cfg, out |-> << "print: Invalid value (1 or 4)" >>]

\* MMC.bus_width setter: the whole call
MMC_BusWidthSet(cfg, value, ack) ==
    LET upd  == MMC_BusWidthUpdate(cfg, value)
        push == MMC_ConfigurePort(upd.config, ack)
    IN  [config |-> upd.config, tx |-> push.tx, rx |-> push.rx,
         out |-> upd.out \o push.out, ret |-> RetNone]

\* MMC.write: the byte strings written to the adapter
MMC_WriteTx(data, block_num) ==
    << ToBytesBig(5, 1), ToBytesBig(block_num, 4), data >>

\* MMC.write: the result, from the status byte read
MMC_WriteRet(statusByte) == RetBool(FromBytesLittle(statusByte) = 1)

\* MMC_ReadTx framing the block number least significant byte first
Mutant_MMC_ReadTx(block_num) ==
    << ToBytesBig(4, 1), ToBytesLittle(block_num, 4) >>

\* MMC.read: the byte strings written to the adapter
MMC_ReadTx(block_num) == << ToBytesBig(4, 1), ToBytesBig(block_num, 4) >>

\* MMC.read: whether the payload is read after the status byte
MMC_ReadTakesPayload(statusByte) == FromBytesLittle(statusByte) = 1

SetBusWidthMMC(value, ack) ==
    /\ handler = "MMC"
    /\ LET r == MMC_BusWidthSet(config, value, ack) IN
        /\ config' = r.config
        /\ tx' = r.tx /\ rx' = r.rx /\ out' = r.out /\ ret' = r.ret
    /\ config0' = config
    /\ call' = Call("bus_width.set", <<value>>)
    /\ UNCHANGED <<prim, builtin, handler, store, rf, mode, written, given, swdvars>>

WriteMMC(data, block_num, status) ==
    /\ handler = "MMC"
    /\ tx' = MMC_WriteTx(data, block_num)
    /\ rx' = << <<status>> >>
    /\ ret' = MMC_WriteRet(<<status>>)
    /\ store' = AdapterStore(store, Flatten(tx'), status)
    /\ written' = IF ret'.val
                  THEN [b \in (DOMAIN written) \cup {block_num} |->
                           IF b = block_num THEN data ELSE written[b]]
                  ELSE written
    /\ out' = <<>>
    /\ config0' = config
    /\ call' = Call("write", <<data, block_num>>)
    /\ UNCHANGED <<prim, builtin, handler, config, given, rf, mode, swdvars>>

ReadMMC(block_num, status) ==
    /\ handler = "MMC"
    /\ tx' = MMC_ReadTx(block_num)
    /\ IF MMC_ReadTakesPayload(<<status>>)
       THEN /\ rx' = << <<status>>, AdapterBlock(store, Flatten(tx')) >>
            /\ ret' = RetBytes(rx'[2])
       ELSE /\ rx' = << <<status>> >>
            /\ ret' = RetBytes(<<>>)
    /\ out' = <<>>
    /\ config0' = config
    /\ call' = Call("read", <<block_num>>)
    /\ UNCHANGED <<prim, builtin, handler, config, store, rf, mode, written, given, swdvars>>

\* the card registers a caller reads: the getter, its command byte and the
\* number of bytes it reads after the status byte
MMC_Registers ==
    { [name |-> "cid", cmd |-> 2, len |-> 16],
      [name |-> "csd", cmd |-> 3, len |-> 16],
      [name |-> "ext_csd", cmd |-> 6, len |-> BlockSize] }

\* MMC.cid, MMC.csd, MMC.ext_csd: the byte strings written to the adapter
MMC_RegisterTx(reg) == << ToBytesBig(reg.cmd, 1) >>

\* MMC.cid, MMC.csd, MMC.ext_csd: how many bytes are read after the status
\* byte, which is read and not looked at
MMC_RegisterTakes(reg, statusByte) == reg.len

GetRegisterMMC(reg, status, seed) ==
    /\ handler = "MMC"
    /\ tx' = MMC_RegisterTx(reg)
    /\ rx' = << <<status>>, Reply(MMC_RegisterTakes(reg, <<status>>), seed) >>
    /\ ret' = RetBytes(rx'[2])
    /\ out' = <<>>
    /\ config0' = config
    /\ call' = Call(reg.name, <<>>)
    /\ UNCHANGED <<prim, builtin, handler, config, store, rf, mode, written, given, swdvars>>

NextMMC ==
    \/ \E value \in WidthValues, ack \in AckBytes : SetBusWidthMMC(value, ack)
    \/ \E data \in Payloads, b \in BlockNums, s \in StatusBytes : WriteMMC(data, b, s)
    \/ \E b \in BlockNums, s \in StatusBytes : ReadMMC(b, s)
    \/ \E reg \in MMC_Registers, s \in StatusBytes, seed \in 0..MaxSeed :
          GetRegisterMMC(reg, s, seed)

-----------------------------------------------------------------------------
(* SDIO handler, src/pyHydrabus/sdio.py *)

SDIO_DEFAULT_CONFIG == 0

\* SDIO._configure_port: the exchange with the adapter and its result
SDIO_ConfigurePort(cfg, ack) ==
    LET CMD == BitOr(128, cfg) IN
    [tx     |-> << ToBytesBig(CMD, 1) >>,
     rx     |-> << <<ack>> >>,
     out    |-> IF <<ack>> = <<1>> THEN <<>> ELSE << "error: Error setting config." >>,
     result |-> (<<ack>> = <<1>>)]

\* SDIO.bus_width getter
SDIO_BusWidthGet(cfg) == IF BitAnd(cfg, 1) # 0 THEN 4 ELSE 1

\* SDIO_BusWidthUpdate setting bit 2 for a width of 4
Mutant_SDIO_BusWidthUpdate(cfg, value) ==
    IF value = 1 THEN [config |-> AndNot(cfg, 1), out |-> <<>>]
    ELSE IF value = 4 THEN [config |-> BitOr(cfg, 4), out |-> <<>>]
    ELSE [config |-> cfg, out |-> << "print: Invalid value (1 or 4)" >>]

\* SDIO.bus_width setter, the update of self._config and the notice printed
SDIO_BusWidthUpdate(cfg, value) ==
    IF value = 1 THEN [config |-> AndNot(cfg, 1), out |-> <<>>]
    ELSE IF value = 4 THEN [config |-> BitOr(cfg, 1), out |-> <<>>]
    ELSE [config |-> cfg, out |-> << "print: Invalid value (1 or 4)" >>]

\* SDIO.bus_width setter: the whole call
SDIO_BusWidthSet(cfg, value, ack) ==
    LET upd  == SDIO_BusWidthUpdate(cfg, value)
        push == SDIO_ConfigurePort(upd.config, ack)
    IN  [config |-> upd.config, tx |-> push.tx, rx |-> push.rx,
         out |-> upd.out \o push.out, ret |-> RetNone]

\* SDIO.frequency getter
SDIO_FrequencyGet(cfg) == IF BitAnd(cfg, 2) # 0 THEN 1 ELSE 0

\* SDIO_FrequencyUpdate assigning the frequency bit instead of merging it
Mutant_SDIO_FrequencyUpdate(cfg, value) ==
    IF value = 0 THEN [config |-> 0, out |-> <<>>]
    ELSE IF value = 1 THEN [config |-> Shl(1, 1), out |-> <<>>]
    ELSE [config |-> cfg, out |-> << "print: Invalid value (0 or 1)" >>]

\* SDIO.frequency setter, the update of self._config and the notice printed
SDIO_FrequencyUpdate(cfg, value) ==
    IF value = 0 THEN [config |-> AndNot(cfg, Shl(1, 1)), out |-> <<>>]
    ELSE IF value = 1 THEN [config |-> BitOr(cfg, Shl(1, 1)), out |-> <<>>]
    ELSE [config |-> cfg, out |-> << "print: Invalid value (0 or 1)" >>]

\* SDIO_FrequencySet pushing the configuration before it updates it
Mutant_SDIO_FrequencySet(cfg, value, ack) ==
    LET upd  == SDIO_FrequencyUpdate(cfg, value)
        push == SDIO_ConfigurePort(cfg, ack)
    IN  [config |-> upd.config, tx |-> push.tx, rx |-> push.rx,
         out |-> upd.out \o push.out, ret |-> RetNone]

\* SDIO.frequency setter: the whole call
SDIO_FrequencySet(cfg, value, ack) ==
    LET upd  == SDIO_FrequencyUpdate(cfg, value)
        push == SDIO_ConfigurePort(upd.config, ack)
    IN  [config |-> upd.config, tx |-> push.tx, rx |-> push.rx,
         out |-> upd.out \o push.out, ret |-> RetNone]

SetBusWidthSDIO(value, ack) ==
    /\ handler = "SDIO"
    /\ LET r == SDIO_BusWidthSet(config, value, ack) IN
        /\ config' = r.config
        /\ tx' = r.tx /\ rx' = r.rx /\ out' = r.out /\ ret' = r.ret
    /\ config0' = config
    /\ call' = Call("bus_width.set", <<value>>)
    /\ given' = Give(given, "bus_width", value, {1, 4})
    /\ UNCHANGED <<prim, builtin, handler, store, rf, mode, written, swdvars>>

SetFrequencySDIO(value, ack) ==
    /\ handler = "SDIO"
    /\ LET r == SDIO_FrequencySet(config, value, ack) IN
        /\ config' = r.config
        /\ tx' = r.tx /\ rx' = r.rx /\ out' = r.out /\ ret' = r.ret
    /\ config0' = config
    /\ call' = Call("frequency.set", <<value>>)
    /\ given' = Give(given, "frequency", value, {0, 1})
    /\ UNCHANGED <<prim, builtin, handler, store, rf, mode, written, swdvars>>

\* card command ids and arguments a caller sends
CmdIds == {0, 8}
CmdArgs == {0, 426}

\* SDIO.send_short: the byte strings written to the adapter
SDIO_SendShortTx(cmd_id, cmd_arg) ==
    << ToBytesLittle(5, 1), ToBytesLittle(cmd_id, 1), ToBytesLittle(cmd_arg, 4) >>

\* SDIO.send_short: how many reply bytes are read after the status byte
\* (-1: none are read and the result is None)
SDIO_SendShortTakes(statusByte) ==
    IF FromBytesLittle(statusByte) = 1 THEN 4 ELSE -1

\* SDIO.send_long: the byte strings written to the adapter
SDIO_SendLongTx(cmd_id, cmd_arg) ==
    << ToBytesLittle(6, 1), ToBytesLittle(cmd_id, 1), ToBytesLittle(cmd_arg, 4) >>

\* SDIO_SendLongTakes testing the status for non-zero instead of for 1
Mutant_SDIO_SendLongTakes(statusByte) ==
    IF FromBytesLittle(statusByte) # 0 THEN 16 ELSE -1

\* SDIO.send_long: how many reply bytes are read after the status byte
\* (-1: none are read and the result is None)
SDIO_SendLongTakes(statusByte) ==
    IF FromBytesLittle(statusByte) = 1 THEN 16 ELSE -1

\* SDIO.send_no: the byte strings written to the adapter
SDIO_SendNoTx(cmd_id, cmd_arg) ==
    << ToBytesLittle(4, 1), ToBytesLittle(cmd_id, 1), ToBytesLittle(cmd_arg, 4) >>

\* SDIO.send_no: the result, from the status byte
SDIO_SendNoRet(statusByte) == RetBool(FromBytesLittle(statusByte) = 1)

SendNoSDIO(cmd_id, cmd_arg, status) ==
    /\ handler = "SDIO"
    /\ tx' = SDIO_SendNoTx(cmd_id, cmd_arg)
    /\ rx' = << <<status>> >>
    /\ ret' = SDIO_SendNoRet(<<status>>)
    /\ out' = <<>>
    /\ config0' = config
    /\ call' = Call("send_no", <<cmd_id, cmd_arg>>)
    /\ UNCHANGED <<prim, builtin, handler, config, store, rf, mode, written, given, swdvars>>

SendShortSDIO(cmd_id, cmd_arg, status, seed) ==
    /\ handler = "SDIO"
    /\ tx' = SDIO_SendShortTx(cmd_id, cmd_arg)
    /\ LET n == SDIO_SendShortTakes(<<status>>) IN
       IF n >= 0
       THEN /\ rx' = << <<status>>, Reply(n, seed) >>
            /\ ret' = RetBytes(rx'[2])
       ELSE /\ seed = 0
            /\ rx' = << <<status>> >>
            /\ ret' = RetNone
    /\ out' = <<>>
    /\ config0' = config
    /\ call' = Call("send_short", <<cmd_id, cmd_arg>>)
    /\ UNCHANGED <<prim, builtin, handler, config, store, rf, mode, written, given, swdvars>>

SendLongSDIO(cmd_id, cmd_arg, status, seed) ==
    /\ handler = "SDIO"
    /\ tx' = SDIO_SendLongTx(cmd_id, cmd_arg)
    /\ LET n == SDIO_SendLongTakes(<<status>>) IN
       IF n >= 0
       THEN /\ rx' = << <<status>>, Reply(n, seed) >>
            /\ ret' = RetBytes(rx'[2])
       ELSE /\ seed = 0
            /\ rx' = << <<status>> >>
            /\ ret' = RetNone
    /\ out' = <<>>
    /\ config0' = config
    /\ call' = Call("send_long", <<cmd_id, cmd_arg>>)
    /\ UNCHANGED <<prim, builtin, handler, config, store, rf, mode, written, given, swdvars>>

\* card command ids of block writes and reads (WRITE_BLOCK, READ_SINGLE_BLOCK)
BlockCmdIds == {17, 24}

\* the simulated adapter in SDIO mode: the block it sends after answering a
\* read command with status 1, a pattern picked by the argument's low byte
AdapterSdioBlock(cmd) == Reply(BlockSize, cmd[3])

\* every byte the simulated adapter sends in answer to a block command: the
\* status byte and, only after status 1 to a read command, the block
AdapterSends(binmode, st, cmd, status) ==
    <<status>> \o
    (IF status # 1 THEN <<>>
     ELSE IF binmode = "MMC" /\ cmd[1] = 4 THEN AdapterBlock(st, cmd)
     ELSE IF binmode = "SDIO" /\ cmd[1] = 13 THEN AdapterSdioBlock(cmd)
     ELSE <<>>)

\* SDIO.write: the byte strings written to the adapter
SDIO_WriteTx(cmd_id, cmd_arg, data) ==
    << ToBytesBig(9, 1), ToBytesLittle(cmd_id, 1), ToBytesLittle(cmd_arg, 4), data >>

\* SDIO.write: the result, from the status byte read
SDIO_WriteRet(statusByte) == RetBool(FromBytesLittle(statusByte) = 1)

\* SDIO.read: the byte strings written to the adapter
SDIO_ReadTx(cmd_id, cmd_arg) ==
    << ToBytesBig(13, 1), ToBytesLittle(cmd_id, 1), ToBytesLittle(cmd_arg, 4) >>

\* SDIO_ReadTakesPayload testing the status for non-zero instead of for 1
Mutant_SDIO_ReadTakesPayload(statusByte) == FromBytesLittle(statusByte) # 0

\* SDIO.read: whether the payload is read after the status byte
SDIO_ReadTakesPayload(statusByte) == FromBytesLittle(statusByte) = 1

WriteSDIO(cmd_id, cmd_arg, data, status) ==
    /\ handler = "SDIO"
    /\ tx' = SDIO_WriteTx(cmd_id, cmd_arg, data)
    /\ rx' = << <<status>> >>
    /\ ret' = SDIO_WriteRet(<<status>>)
    /\ out' = <<>>
    /\ config0' = config
    /\ call' = Call("write", <<cmd_id, cmd_arg, data>>)
    /\ UNCHANGED <<prim, builtin, handler, config, store, rf, mode, written, given, swdvars>>

ReadSDIO(cmd_id, cmd_arg, status) ==
    /\ handler = "SDIO"
    /\ tx' = SDIO_ReadTx(cmd_id, cmd_arg)
    /\ IF SDIO_ReadTakesPayload(<<status>>)
       THEN /\ rx' = << <<status>>, AdapterSdioBlock(Flatten(tx')) >>
            /\ ret' = RetBytes(rx'[2])
       ELSE /\ rx' = << <<status>> >>
            /\ ret' = RetBytes(<<>>)
    /\ out' = <<>>
    /\ config0' = config
    /\ call' = Call("read", <<cmd_id, cmd_arg>>)
    /\ UNCHANGED <<prim, builtin, handler, config, store, rf, mode, written, given, swdvars>>

NextSDIO ==
    \/ \E c \in BlockCmdIds, a \in CmdArgs, data \in Payloads, s \in StatusBytes :
          WriteSDIO(c, a, data, s)
    \/ \E c \in BlockCmdIds, a \in CmdArgs, s \in StatusBytes : ReadSDIO(c, a, s)
    \/ \E value \in WidthValues, ack \in AckBytes : SetBusWidthSDIO(value, ack)
    \/ \E value \in FreqValues, ack \in AckBytes : SetFrequencySDIO(value, ack)
    \/ \E c \in CmdIds, a \in CmdArgs, s \in StatusBytes : SendNoSDIO(c, a, s)
    \/ \E c \in CmdIds, a \in CmdArgs, s \in StatusBytes, seed \in 0..MaxSeed :
          SendShortSDIO(c, a, s, seed)
    \/ \E c \in CmdIds, a \in CmdArgs, s \in StatusBytes, seed \in 0..MaxSeed :
          SendLongSDIO(c, a, s, seed)

-----------------------------------------------------------------------------
(* NFC handler, src/pyHydrabus/nfc.py *)

\* payload lengths a caller gives NFC.write; 256 does not fit the length byte
NfcLens == {0, 1, 2, 254, 255, 256}

\* the payload of a given length a caller sends
NfcData(n) == [i \in 1..n |-> (i * 3) % 256]

\* CRC flags a caller gives NFC.write
NfcCrcs == {0, 1, 255}

\* the reply lengths the adapter declares
NfcReplyLens == {0, 1, 4, 255}

\* NFC_WriteTx sending the length byte before the CRC flag
Mutant_NFC_WriteTx(data, crc) ==
    IF ~Fits(crc, 1) THEN << ToBytesBig(5, 1) >>
    ELSE IF ~Fits(Len(data), 1) THEN << ToBytesBig(5, 1), ToBytesBig(crc, 1) >>
    ELSE << ToBytesBig(5, 1), ToBytesBig(Len(data), 1), ToBytesBig(crc, 1), data >>

\* NFC.write: the byte strings written to the adapter, up to an OverflowError
\* of to_bytes(1) when the flag or the length does not fit one byte
NFC_WriteTx(data, crc) ==
    IF ~Fits(crc, 1) THEN << ToBytesBig(5, 1) >>
    ELSE IF ~Fits(Len(data), 1) THEN << ToBytesBig(5, 1), ToBytesBig(crc, 1) >>
    ELSE << ToBytesBig(5, 1), ToBytesBig(crc, 1), ToBytesBig(Len(data), 1), data >>

\* NFC.write: whether the call raises before it reads anything
NFC_WriteRaises(data, crc) == ~Fits(crc, 1) \/ ~Fits(Len(data), 1)

\* NFC.write: the number of reply bytes read after the length byte
NFC_WriteRxLen(lenByte) == FromBytesLittle(lenByte)

WriteNFC(data, crc, rxlen, seed) ==
    /\ handler = "NFC"
    /\ tx' = NFC_WriteTx(data, crc)
    /\ IF NFC_WriteRaises(data, crc)
       THEN /\ rxlen = 0 /\ seed = 0
            /\ rx' = <<>>
            /\ ret' = RetRaise("OverflowError", 0)
       ELSE /\ rx' = << <<rxlen>>, Reply(NFC_WriteRxLen(<<rxlen>>), seed) >>
            /\ ret' = RetBytes(rx'[2])
    /\ out' = <<>>
    /\ config0' = config
    /\ call' = Call("write", <<data, crc>>)
    /\ UNCHANGED <<prim, builtin, handler, config, store, rf, mode, written, given, swdvars>>

\* values a caller gives the mode and rf setters; 256 makes a command that
\* does not fit one byte
NfcModes == {0, 1, 256}
NfcRfs == {0, 1, 256}

\* bit counts a caller gives NFC.write_bits; 256 does not fit one byte
NfcNumBits == {0, 7, 256}

\* NFC.mode setter: the command, the byte strings written (none when
\* to_bytes(1) raises OverflowError) and self._mode after the call
NFC_ModeSet(cur, value) ==
    LET CMD == BitOr(6, value) IN
    IF Fits(CMD, 1)
    THEN [tx |-> << ToBytesBig(CMD, 1) >>, mode |-> value, ret |-> RetNone]
    ELSE [tx |-> <<>>, mode |-> cur, ret |-> RetRaise("OverflowError", 0)]

\* NFC.rf setter: the command, the byte strings written (none when
\* to_bytes(1) raises OverflowError) and self._rf after the call
NFC_RfSet(cur, value) ==
    LET CMD == BitOr(2, value) IN
    IF Fits(CMD, 1)
    THEN [tx |-> << ToBytesBig(CMD, 1) >>, rf |-> value, ret |-> RetNone]
    ELSE [tx |-> <<>>, rf |-> cur, ret |-> RetRaise("OverflowError", 0)]

SetModeNFC(value) ==
    /\ handler = "NFC"
    /\ LET r == NFC_ModeSet(mode, value) IN
        /\ tx' = r.tx /\ mode' = r.mode /\ ret' = r.ret
    /\ rx' = <<>> /\ out' = <<>>
    /\ config0' = config
    /\ call' = Call("mode.set", <<value>>)
    /\ UNCHANGED <<prim, builtin, handler, config, store, rf, written, given, swdvars>>

SetRfNFC(value) ==
    /\ handler = "NFC"
    /\ LET r == NFC_RfSet(rf, value) IN
        /\ tx' = r.tx /\ rf' = r.rf /\ ret' = r.ret
    /\ rx' = <<>> /\ out' = <<>>
    /\ config0' = config
    /\ call' = Call("rf.set", <<value>>)
    /\ UNCHANGED <<prim, builtin, handler, config, store, mode, written, given, swdvars>>

\* NFC.write_bits: the byte strings written to the adapter, up to an
\* OverflowError of to_bytes(1) when the bit count does not fit one byte
NFC_WriteBitsTx(data, num_bits) ==
    IF ~Fits(num_bits, 1) THEN << ToBytesBig(4, 1), data >>
    ELSE << ToBytesBig(4, 1), data, ToBytesBig(num_bits, 1) >>

\* NFC.write_bits: whether the call raises before it reads anything
NFC_WriteBitsRaises(data, num_bits) == ~Fits(num_bits, 1)

\* NFC.write_bits: the number of reply bytes read after the length byte
NFC_WriteBitsRxLen(lenByte) == FromBytesLittle(lenByte)

WriteBitsNFC(data, num_bits, rxlen, seed) ==
    /\ handler = "NFC"
    /\ tx' = NFC_WriteBitsTx(data, num_bits)
    /\ IF NFC_WriteBitsRaises(data, num_bits)
       THEN /\ rxlen = 0 /\ seed = 0
            /\ rx' = <<>>
            /\ ret' = RetRaise("OverflowError", 0)
       ELSE /\ rx' = << <<rxlen>>, Reply(NFC_WriteBitsRxLen(<<rxlen>>), seed) >>
            /\ ret' = RetBytes(rx'[2])
    /\ out' = <<>>
    /\ config0' = config
    /\ call' = Call("write_bits", <<data, num_bits>>)
    /\ UNCHANGED <<prim, builtin, handler, config, store, rf, mode, written, given, swdvars>>

NextNFC ==
    \/ \E n \in NfcLens, crc \in NfcCrcs, rxlen \in NfcReplyLens, seed \in 0..MaxSeed :
          WriteNFC(NfcData(n), crc, rxlen, seed)
    \/ \E value \in NfcModes : SetModeNFC(value)
    \/ \E value \in NfcRfs : SetRfNFC(value)
    \/ \E nb \in NfcNumBits, rxlen \in NfcReplyLens, seed \in 0..MaxSeed :
          WriteBitsNFC(NfcData(1), nb, rxlen, seed)

-----------------------------------------------------------------------------
(* SWD handler, src/pyHydrabus/swd.py.  It drives the wire through the      *)
(* RawWire primitives write, read_bit, read and clocks; `wire` lists the    *)
(* primitives invoked.  A call of read_dp or write_dp that gets WAIT calls  *)
(* write_dp and itself again: `stack` holds the invocations still to make,  *)
(* first to be made first.                                                  *)

SWD_CONFIG == 10

\* the RawWire primitives as entries of `wire`
WireWrite(bs) == << "write", bs >>
WireReadBit(b) == << "read_bit", <<b>> >>
WireRead(bs) == << "read", bs >>
WireClocks(n) == << "clocks", <<n>> >>
WireWriteBits(bs, n) == << "write_bits", bs, n >>

\* how many nested calls a RawWire primitive takes, itself included: the
\* primitive and what it calls in turn.  RawWire is not part of the handlers'
\* source, so any count from 1 up to the bound is a possible build.
PrimFrames == 1..MaxPrim

\* how many nested calls the interpreter counts for a call of a built-in
\* function or method (bin, str.count, range, int.to_bytes): none or one,
\* depending on the interpreter's version and on how it runs the call
BuiltinFrames == {0, 1}

\* SWD._sync
SWD_Sync == << WireWrite(<<0>>) >>

\* SWD_ApplyDpParity toggling bit 5 (value ^ 1 << 5) instead of setting it
Mutant_SWD_ApplyDpParity(value) ==
    LET tmp == BitAnd(value, 30) IN
    IF PopCount(tmp) % 2 = 1
    THEN (IF Bit(value, 5) = 1 THEN value - 32 ELSE value + 32)
    ELSE value

\* SWD._apply_dp_parity
SWD_ApplyDpParity(value) ==
    LET tmp == BitAnd(value, 30) IN
    IF PopCount(tmp) % 2 = 1 THEN BitOr(value, Shl(1, 5)) ELSE value

\* the command byte of read_dp
SWD_ReadCmd(addr, to_ap) ==
    SWD_ApplyDpParity(BitOr(BitOr(133, Shl(to_ap, 1)), Shl(BitAnd(addr, 12), 1)))

\* SWD_WriteCmd putting the address bits in place without the shift
Mutant_SWD_WriteCmd(addr, to_ap) ==
    SWD_ApplyDpParity(BitOr(BitOr(129, Shl(to_ap, 1)), BitAnd(addr, 12)))

\* the command byte of write_dp
SWD_WriteCmd(addr, to_ap) ==
    SWD_ApplyDpParity(BitOr(BitOr(129, Shl(to_ap, 1)), Shl(BitAnd(addr, 12), 1)))

\* the acknowledgment status from the three bits read, first bit lowest
SWD_Status(bits) == Shl(bits[1], 0) + Shl(bits[2], 1) + Shl(bits[3], 2)

\* an invocation of read_dp; `use` says whether its caller returns its result
\* ("return") or drops it ("discard"); `why` is "abort" for the write_dp(0, 0x1F)
\* made on WAIT and for its retries, "call" otherwise
ReadFrame(addr, to_ap, use, why) ==
    [op |-> "read", addr |-> addr, to_ap |-> to_ap, value |-> 0,
     ignore |-> FALSE, use |-> use, why |-> why]

\* an invocation of write_dp
WriteFrame(addr, value, to_ap, ignore, why) ==
    [op |-> "write", addr |-> addr, to_ap |-> to_ap, value |-> value,
     ignore |-> ignore, use |-> "discard", why |-> why]

\* SWD_AbortFrame with the status of the ABORT write ignored
Mutant_SWD_AbortFrame == WriteFrame(0, 31, 0, TRUE, "abort")

\* self.write_dp(0, 0x0000001F), the ABORT write made on WAIT
SWD_AbortFrame == WriteFrame(0, 31, 0, FALSE, "abort")

\* SWD_ReadDpOnWait retrying without the ABORT write
Mutant_SWD_ReadDpOnWait(f) == << ReadFrame(f.addr, f.to_ap, f.use, f.why) >>

\* the invocations read_dp makes on WAIT: the ABORT write, then itself again
SWD_ReadDpOnWait(f) == << SWD_AbortFrame, ReadFrame(f.addr, f.to_ap, f.use, f.why) >>

\* SWD_WriteDpOnWait retrying without the ABORT write
Mutant_SWD_WriteDpOnWait(f) ==
    << WriteFrame(f.addr, f.value, f.to_ap, FALSE, f.why) >>

\* the invocations write_dp makes on WAIT: the ABORT write, then itself again
SWD_WriteDpOnWait(f) ==
    << SWD_AbortFrame, WriteFrame(f.addr, f.value, f.to_ap, FALSE, f.why) >>

\* one invocation of read_dp, up to its return, its raise or its nested calls:
\* the primitives it invokes, how it ends and the invocations it goes on to make
SWD_ReadDp(f, bits, data) ==
    LET CMD    == SWD_ReadCmd(f.addr, f.to_ap)
        status == SWD_Status(bits)
        head   == << WireWrite(ToBytesLittle(CMD, 1)),
                     WireReadBit(bits[1]), WireReadBit(bits[2]), WireReadBit(bits[3]) >>
    IN  IF status = 1
        THEN [wire |-> head \o << WireRead(data) >> \o SWD_Sync, end |-> "return",
              val |-> FromBytesLittle(data), next |-> <<>>]
        ELSE IF status = 2
        THEN [wire |-> head \o SWD_Sync, end |-> "recurse",
              val |-> 0, next |-> SWD_ReadDpOnWait(f)]
        ELSE [wire |-> head \o SWD_Sync, end |-> "raise",
              val |-> status, next |-> <<>>]

\* SWD_ValueParity with the parity inverted
Mutant_SWD_ValueParity(value) == IF PopCount(value) % 2 = 1 THEN <<0>> ELSE <<1>>

\* the parity byte write_dp sends after the value
SWD_ValueParity(value) == IF PopCount(value) % 2 = 1 THEN <<1>> ELSE <<0>>

\* SWD_WriteDp raising on a bad status without the sync
Mutant_SWD_WriteDp(f, bits) ==
    LET CMD    == SWD_WriteCmd(f.addr, f.to_ap)
        status == SWD_Status(bits)
        head   == << WireWrite(ToBytesLittle(CMD, 1)),
                     WireReadBit(bits[1]), WireReadBit(bits[2]), WireReadBit(bits[3]),
                     WireClocks(2) >>
    IN  IF f.ignore = FALSE /\ status = 2
        THEN [wire |-> head \o SWD_Sync, end |-> "recurse",
              val |-> 0, next |-> SWD_WriteDpOnWait(f)]
        ELSE IF f.ignore = FALSE /\ status # 1
        THEN [wire |-> head, end |-> "raise",
              val |-> status, next |-> <<>>]
        ELSE [wire |-> head \o << WireWrite(ToBytesLittle(f.value, 4)),
                                  WireWrite(SWD_ValueParity(f.value)) >>,
              end |-> "return", val |-> 0, next |-> <<>>]

\* SWD_WriteDp retrying on WAIT whether or not the status is to be ignored
Mutant_SWD_WriteDpRetry(f, bits) ==
    LET CMD    == SWD_WriteCmd(f.addr, f.to_ap)
        status == SWD_Status(bits)
        head   == << WireWrite(ToBytesLittle(CMD, 1)),
                     WireReadBit(bits[1]), WireReadBit(bits[2]), WireReadBit(bits[3]),
                     WireClocks(2) >>
    IN  IF status = 2
        THEN [wire |-> head \o SWD_Sync, end |-> "recurse",
              val |-> 0, next |-> SWD_WriteDpOnWait(f)]
        ELSE IF f.ignore = FALSE /\ status # 1
        THEN [wire |-> head \o SWD_Sync, end |-> "raise",
              val |-> status, next |-> <<>>]
        ELSE [wire |-> head \o << WireWrite(ToBytesLittle(f.value, 4)),
                                  WireWrite(SWD_ValueParity(f.value)) >>,
              end |-> "return", val |-> 0, next |-> <<>>]

\* one invocation of write_dp, as SWD_ReadDp
SWD_WriteDp(f, bits) ==
    LET CMD    == SWD_WriteCmd(f.addr, f.to_ap)
        status == SWD_Status(bits)
        head   == << WireWrite(ToBytesLittle(CMD, 1)),
                     WireReadBit(bits[1]), WireReadBit(bits[2]), WireReadBit(bits[3]),
                     WireClocks(2) >>
    IN  IF f.ignore = FALSE /\ status = 2
        THEN [wire |-> head \o SWD_Sync, end |-> "recurse",
              val |-> 0, next |-> SWD_WriteDpOnWait(f)]
        ELSE IF f.ignore = FALSE /\ status # 1
        THEN [wire |-> head \o SWD_Sync, end |-> "raise",
              val |-> status, next |-> <<>>]
        ELSE [wire |-> head \o << WireWrite(ToBytesLittle(f.value, 4)),
                                  WireWrite(SWD_ValueParity(f.value)) >>,
              end |-> "return", val |-> 0, next |-> <<>>]

\* SWD_ReadAp returning the dummy read's value and dropping RDBUFF's
Mutant_SWD_ReadAp(address, bank) ==
    LET select_reg == BitOr(BitOr(0, Shl(address, 24)), BitAnd(bank, 240)) IN
    << WriteFrame(8, select_reg, 0, FALSE, "call"),
       ReadFrame(BitAnd(bank, 12), 1, "return", "call"),
       ReadFrame(12, 0, "discard", "call") >>

\* SWD.read_ap: the invocations it makes
SWD_ReadAp(address, bank) ==
    LET select_reg == BitOr(BitOr(0, Shl(address, 24)), BitAnd(bank, 240)) IN
    << WriteFrame(8, select_reg, 0, FALSE, "call"),
       ReadFrame(BitAnd(bank, 12), 1, "discard", "call"),
       ReadFrame(12, 0, "return", "call") >>

\* SWD.write_ap: the invocations it makes, write_dp(8, select_reg) and
\* write_dp(bank & 0b1100, value, to_ap=1)
SWD_WriteAp(address, bank, value) ==
    LET select_reg == BitOr(BitOr(0, Shl(address, 24)), BitAnd(bank, 240)) IN
    << WriteFrame(8, select_reg, 0, FALSE, "call"),
       WriteFrame(BitAnd(bank, 12), value, 1, FALSE, "call") >>

\* SWD.abort: the invocation it makes, write_dp(0, flags)
SWD_Abort(flags) == << WriteFrame(0, flags, 0, FALSE, "call") >>

\* SWD.bus_init: the line reset with the JTAG-to-SWD switch, then a sync
SWD_BusInit ==
    << WireWrite(<<255, 255, 255, 255, 255, 255, 123, 158,
                   255, 255, 255, 255, 255, 255, 15>>) >> \o SWD_Sync

\* SWD.multidrop_init: the primitives it invokes before it selects the DP
SWD_MultidropInitWire ==
    SWD_BusInit
    \o << WireWrite(<<146, 243, 9, 98, 149, 45, 133, 134,
                      233, 175, 221, 227, 162, 14, 188, 25>>),
          WireWriteBits(<<0>>, 4),
          WireWrite(<<26>>),
          WireWrite([i \in 1..7 |-> 255]) >>
    \o SWD_Sync

\* SWD_MultidropInit selecting the DP with the status checked
Mutant_SWD_MultidropInit(addr) == << WriteFrame(12, addr, 0, FALSE, "call") >>

\* SWD.multidrop_init: the invocation it makes, write_dp(0xc, addr,
\* ignore_status=True)
SWD_MultidropInit(addr) == << WriteFrame(12, addr, 0, TRUE, "call") >>

\* the DP addresses a caller selects on a multidrop bus
TargetAddrs == {0, 16787751}

\* register addresses, values, AP indexes and banks a caller gives
DpAddrs == {0, 4, 8, 12, 13}
DpValues == {0, 31, 16711935, 305419896}
ApIndexes == {127, 255}
ApBanks == {20, 252}
ApValues == {305419896}
AbortFlags == {1, 31}

\* the three acknowledgment bits the target answers with
AckBits == [1..3 -> {0, 1}]

\* the 4 bytes the target answers a read with
ReadWords == { <<120, 86, 52, 18>>, <<255, 255, 255, 127>> }

\* the entry of `txns` for invocation f acknowledged with bits, whose first
\* primitive is number `at` of the call's and which runs d calls deep
TxnAt(f, bits, data, at, d) ==
    [op |-> f.op, addr |-> f.addr, to_ap |-> f.to_ap, value |-> f.value,
     ignore |-> f.ignore, why |-> f.why, status |-> SWD_Status(bits),
     data |-> data, at |-> at, depth |-> d]

\* the entry of `txns` for the next invocation of the running call
Txn(f, bits, data) == TxnAt(f, bits, data, Len(wire) + 1, Head(depth))

\* a caller invokes a method that first invokes the primitives `prefix` and
\* then makes the invocations `frames`, each d calls deep
SwdEnter(name, args, prefix, frames, d) ==
    /\ handler = "SWD"
    /\ stack = <<>>
    /\ call' = Call(name, args)
    /\ stack' = frames
    /\ depth' = [i \in 1..Len(frames) |-> d]
    /\ wire' = prefix /\ txns' = <<>> /\ waits' = 0
    /\ held' = RetNone
    /\ ret' = IF frames = <<>> THEN RetNone ELSE RetPending
    /\ out' = <<>>
    /\ UNCHANGED <<prim, builtin, handler, config, config0, tx, rx, store, rf, mode, written, given>>

CallReadDp(addr, to_ap) ==
    /\ to_ap \in {0, 1}
    /\ SwdEnter("read_dp", <<addr, to_ap>>, <<>>,
                << ReadFrame(addr, to_ap, "return", "call") >>, 1)

CallWriteDp(addr, value, to_ap, ignore_status) ==
    /\ to_ap \in {0, 1}
    /\ SwdEnter("write_dp", <<addr, value, to_ap, ignore_status>>, <<>>,
                << WriteFrame(addr, value, to_ap, ignore_status, "call") >>, 1)

CallReadAp(address, bank) ==
    /\ address \in 0..255
    /\ SwdEnter("read_ap", <<address, bank>>, <<>>, SWD_ReadAp(address, bank), 2)

CallWriteAp(address, bank, value) ==
    /\ address \in 0..255
    /\ SwdEnter("write_ap", <<address, bank, value>>, <<>>,
                SWD_WriteAp(address, bank, value), 2)

CallAbort(flags) ==
    /\ flags \in AbortFlags
    /\ SwdEnter("abort", <<flags>>, <<>>, SWD_Abort(flags), 2)

\* bus_init called by itself: it makes no invocation and returns None
CallBusInit ==
    /\ handler = "SWD"
    /\ SwdEnter("bus_init", <<>>, SWD_BusInit, <<>>, 2)

CallMultidropInit(addr) ==
    /\ addr \in TargetAddrs
    /\ SwdEnter("multidrop_init", <<addr>>, SWD_MultidropInitWire,
                SWD_MultidropInit(addr), 2)

\* the place of _sync's write among the primitives of invocation r of frame
\* f, 0 when r does not call _sync: read_dp calls it last on every path,
\* write_dp last before it retries or raises and not when it sends the value
SWD_SyncAt(f, r) == IF f.op = "read" \/ r.end # "return" THEN Len(r.wire) ELSE 0

\* what the interpreter lets run of invocation r of frame f, made `room`
\* calls short of the recursion limit, when a primitive takes p nested
\* calls and a call of a built-in b.  The invocation first calls
\* _apply_dp_parity, which calls bin and count, and then the primitives;
\* it calls _sync last, and _sync the primitive write, one call deeper.
\* With no room for _apply_dp_parity or for a primitive the invocation
\* raises RecursionError before a primitive has run; with no room for the
\* write of _sync it raises it there, and the primitives before have run.
\* `answered` says whether the acknowledgment was read.
SWD_Limited(f, r, room, p, b) ==
    IF room < 1 + b \/ room < p
    THEN [wire |-> <<>>, end |-> "limit", val |-> 0, next |-> <<>>,
          answered |-> FALSE]
    ELSE IF room < 1 + p /\ SWD_SyncAt(f, r) > 0
    THEN [wire |-> SubSeq(r.wire, 1, SWD_SyncAt(f, r) - 1), end |-> "limit",
          val |-> 0, next |-> <<>>, answered |-> TRUE]
    ELSE [wire |-> r.wire, end |-> r.end, val |-> r.val, next |-> r.next,
          answered |-> TRUE]

\* the running call, as a record
SwdNow ==
    [stack |-> stack, depth |-> depth, wire |-> wire, txns |-> txns,
     waits |-> waits, held |-> held, ret |-> ret]

\* the call s after it went through its next invocation, of frame f, which
\* with call depth to spare would run as r0.  The invocations it goes on to
\* make run one call deeper than f.  No method catches RecursionError.
SwdAfter(s, f, r0, bits, data, p, b) ==
    LET r      == SWD_Limited(f, r0, MaxDepth - Head(s.depth), p, b)
        ended  == r.end = "limit" \/ r.end = "raise"
        stack1 == IF ended THEN <<>> ELSE r.next \o Tail(s.stack)
        held1  == IF ~ended /\ r.end = "return" /\ f.op = "read" /\ f.use = "return"
                  THEN RetInt(r.val) ELSE s.held
    IN  [stack |-> stack1,
         depth |-> IF ended THEN <<>>
                   ELSE [i \in 1..Len(r.next) |-> Head(s.depth) + 1] \o Tail(s.depth),
         wire  |-> s.wire \o r.wire,
         txns  |-> IF r.answered
                   THEN Append(s.txns, TxnAt(f, bits, data, Len(s.wire) + 1, Head(s.depth)))
                   ELSE s.txns,
         waits |-> IF r.answered /\ SWD_Status(bits) = 2 THEN s.waits + 1 ELSE s.waits,
         held  |-> held1,
         ret   |-> IF r.end = "limit" THEN RetRaise("RecursionError", 0)
                   ELSE IF r.end = "raise" THEN RetRaise("ValueError", r.val)
                   ELSE IF stack1 = <<>> THEN held1 ELSE RetPending]

\* the running call goes through its next invocation
SwdAdvance(f, r0, bits, data) ==
    LET s == SwdAfter(SwdNow, f, r0, bits, data, prim, builtin) IN
    /\ stack' = s.stack /\ depth' = s.depth
    /\ wire' = s.wire /\ txns' = s.txns /\ waits' = s.waits
    /\ held' = s.held /\ ret' = s.ret
    /\ UNCHANGED <<prim, builtin, handler, config, config0, call, tx, rx, out, store, rf, mode, written, given>>

\* the running call makes its next invocation, a read_dp, and the target
\* answers it with the acknowledgment bits and, on OK, the 4 bytes data
RunReadDp(bits, data) ==
    /\ handler = "SWD"
    /\ stack # <<>>
    /\ Head(stack).op = "read"
    /\ SWD_Status(bits) # 1 => data = <<>>
    /\ SWD_Status(bits) = 1 => data \in ReadWords
    /\ \E r0 \in { SWD_ReadDp(Head(stack), bits, data) } :
          SwdAdvance(Head(stack), r0, bits, data)

\* the running call makes its next invocation, a write_dp
RunWriteDp(bits) ==
    /\ handler = "SWD"
    /\ stack # <<>>
    /\ Head(stack).op = "write"
    /\ \E r0 \in { SWD_WriteDp(Head(stack), bits) } :
          SwdAdvance(Head(stack), r0, bits, <<>>)

\* format(n, "0{width}x") for an n of `width` hexadecimal digits at most,
\* as a sequence of characters
HexDigits == << "0", "1", "2", "3", "4", "5", "6", "7",
                "8", "9", "a", "b", "c", "d", "e", "f" >>
Hex(n, width) == [i \in 1..width |-> HexDigits[((n \div Pow(16, width - i)) % 16) + 1]]

\* 0xFFFFFFFF
AllOnes32 == Word32(1, 2147483647)

\* what scan_bus prints for the AP ap that read_ap returned idr for: the
\* characters of f"0x{ap:02x}: 0x{idr:08x}" when idr is neither 0 nor
\* 0xFFFFFFFF, and nothing otherwise
SWD_ScanPrint(ap, idr) ==
    IF idr # 0 /\ idr # AllOnes32
    THEN << << "0", "x" >> \o Hex(ap, 2) \o << ":", " ", "0", "x" >> \o Hex(idr, 8) >>
    ELSE <<>>

\* a call s runs on to its end against a target that gives `answers`, the
\* acknowledgment bits and the data of each invocation in turn
RECURSIVE SwdRun(_, _, _, _)
SwdRun(s, answers, p, b) ==
    IF s.stack = <<>> \/ answers = <<>> THEN s
    ELSE LET f  == Head(s.stack)
             a  == Head(answers)
             r0 == IF f.op = "read" THEN SWD_ReadDp(f, a.bits, a.data)
                   ELSE SWD_WriteDp(f, a.bits)
         IN  SwdRun(SwdAfter(s, f, r0, a.bits, a.data, p, b), Tail(answers), p, b)

\* scan_bus's call read_ap(ap, 0xFC), three calls deep, run to its end
SWD_ScanAp(ap, answers, p, b) ==
    SwdRun([stack |-> SWD_ReadAp(ap, 252), depth |-> <<3, 3, 3>>, wire |-> <<>>,
            txns |-> <<>>, waits |-> 0, held |-> RetNone, ret |-> RetPending],
           answers, p, b)

\* scan_bus over the APs lo..hi: the primitives invoked, the invocations
\* made, the lines printed and how the loop ends, by a raise of read_ap or
\* after AP hi.  The loop `for ap in range(256)` is taken by halves.
RECURSIVE SWD_ScanBus(_, _, _, _, _)
SWD_ScanBus(answers, lo, hi, p, b) ==
    IF lo = hi
    THEN LET s == SWD_ScanAp(lo, answers[lo], p, b) IN
         [wire |-> s.wire, txns |-> s.txns, waits |-> s.waits,
          out |-> IF s.ret.kind = "int" THEN SWD_ScanPrint(lo, s.ret.val) ELSE <<>>,
          ret |-> IF s.ret.kind = "raise" THEN s.ret ELSE RetNone]
    ELSE LET mid   == (lo + hi) \div 2
             first == SWD_ScanBus(answers, lo, mid, p, b)
             rest  == SWD_ScanBus(answers, mid + 1, hi, p, b)
         IN  IF first.ret.kind = "raise" THEN first
             ELSE [wire |-> first.wire \o rest.wire,
                   txns |-> first.txns
                            \o [i \in 1..Len(rest.txns) |->
                                  [rest.txns[i] EXCEPT !.at = @ + Len(first.wire)]],
                   waits |-> first.waits + rest.waits,
                   out |-> first.out \o rest.out,
                   ret |-> rest.ret]

\* the target answers every invocation OK
AnswerOk(data) == [bits |-> <<1, 0, 0>>, data |-> data]
AnswerWait == [bits |-> <<0, 1, 0>>, data |-> <<>>]
AnswerFault == [bits |-> <<0, 0, 1>>, data |-> <<>>]

\* targets a bus scan meets: the IDR of each AP that has one (an AP that is
\* not there reads as 0), the AP whose selection the target answers with
\* WAIT once, and the AP whose selection it answers with FAULT (256: none)
ScanTargets ==
    { [idr |-> [ap \in {} |-> <<>>], wait |-> 256, fault |-> 256],
      [idr |-> [ap \in {0, 1, 200} |->
                  IF ap = 0 THEN <<17, 0, 119, 36>>
                  ELSE IF ap = 1 THEN <<255, 255, 255, 255>>
                  ELSE <<1, 0, 0, 128>>],
       wait |-> 3, fault |-> 256],
      [idr |-> [ap \in {0} |-> <<17, 0, 119, 36>>], wait |-> 256, fault |-> 130] }

\* what target T answers the invocations of read_ap(ap, 0xFC) with, in turn
ScanAnswers(T) ==
    [ap \in 0..255 |->
        LET idr == IF ap \in DOMAIN T.idr THEN T.idr[ap] ELSE <<0, 0, 0, 0>> IN
        IF ap = T.fault THEN << AnswerFault >>
        ELSE (IF ap = T.wait THEN << AnswerWait, AnswerOk(<<>>) >> ELSE <<>>)
             \o << AnswerOk(<<>>), AnswerOk(<<0, 0, 0, 0>>), AnswerOk(idr) >>]

\* scan_bus against each target in the build of InitOf: what a call of it
\* does depends on nothing but the target and the build
SWD_ScanRuns == [T \in ScanTargets |-> SWD_ScanBus(ScanAnswers(T), 0, 255, 1, 0)]

\* scan_bus against target T in the build p, b
SWD_ScanRun(T, p, b) ==
    IF p = 1 /\ b = 0 THEN SWD_ScanRuns[T]
    ELSE SWD_ScanBus(ScanAnswers(T), 0, 255, p, b)

\* a caller invokes scan_bus against target T
ScanBus(T) ==
    /\ handler = "SWD"
    /\ stack = <<>>
    /\ \E r \in { SWD_ScanRun(T, prim, builtin) } :
       /\ call' = Call("scan_bus", <<>>)
       /\ wire' = r.wire /\ txns' = r.txns /\ waits' = r.waits
       /\ out' = r.out /\ ret' = r.ret
    /\ stack' = <<>> /\ depth' = <<>> /\ held' = RetNone
    /\ UNCHANGED <<prim, builtin, handler, config, config0, tx, rx, store, rf, mode, written, given>>

\* the same against a target that answers WAIT at most MaxWaits times a call
StepReadDp(bits, data) ==
    /\ SWD_Status(bits) = 2 => waits < MaxWaits
    /\ RunReadDp(bits, data)

StepWriteDp(bits) ==
    /\ SWD_Status(bits) = 2 => waits < MaxWaits
    /\ RunWriteDp(bits)

NextSWD ==
    \/ \E addr \in DpAddrs, to_ap \in {0, 1} : CallReadDp(addr, to_ap)
    \/ \E addr \in DpAddrs, value \in DpValues, to_ap \in {0, 1}, ign \in BOOLEAN :
          CallWriteDp(addr, value, to_ap, ign)
    \/ \E address \in ApIndexes, bank \in ApBanks : CallReadAp(address, bank)
    \/ \E address \in ApIndexes, bank \in ApBanks, value \in ApValues :
          CallWriteAp(address, bank, value)
    \/ \E flags \in AbortFlags : CallAbort(flags)
    \/ CallBusInit
    \/ \E T \in ScanTargets : ScanBus(T)
    \/ \E addr \in TargetAddrs : CallMultidropInit(addr)
    \/ \E bits \in AckBits, data \in ReadWords \cup {<<>>} : StepReadDp(bits, data)
    \/ \E bits \in AckBits : StepWriteDp(bits)

\* read_dp and write_dp against a target that answers OK, WAIT or FAULT as
\* often as it likes: only the interpreter's call depth ends a run of WAITs
WaitAckBits == { <<1, 0, 0>>, <<0, 1, 0>>, <<0, 0, 1>> }
WaitReadWords == { <<120, 86, 52, 18>> }
WaitAddrs == {4}
WaitValues == {305419896}

\* how deep the call of read_dp or write_dp is: its caller is itself nested
\* in calls, and makes it one call or three calls short of the
\* interpreter's limit
CallerDepths == {MaxDepth - 3, MaxDepth - 1}

\* a caller d - 1 calls deep calls read_dp
DeepReadDp(addr, to_ap, d) ==
    /\ d \in 1..MaxDepth
    /\ SwdEnter("read_dp", <<addr, to_ap>>, <<>>,
                << ReadFrame(addr, to_ap, "return", "call") >>, d)

\* a caller d - 1 calls deep calls write_dp
DeepWriteDp(addr, value, to_ap, ignore_status, d) ==
    /\ d \in 1..MaxDepth
    /\ SwdEnter("write_dp", <<addr, value, to_ap, ignore_status>>, <<>>,
                << WriteFrame(addr, value, to_ap, ignore_status, "call") >>, d)

NextWait ==
    \/ \E addr \in WaitAddrs, to_ap \in {0, 1}, d \in CallerDepths :
          DeepReadDp(addr, to_ap, d)
    \/ \E addr \in WaitAddrs, value \in WaitValues, ign \in BOOLEAN, d \in CallerDepths :
          DeepWriteDp(addr, value, 0, ign, d)
    \/ \E bits \in WaitAckBits, data \in WaitReadWords \cup {<<>>} : RunReadDp(bits, data)
    \/ \E bits \in WaitAckBits : RunWriteDp(bits)

\* read_dp and write_dp of every register address from 0 to 15
CmdAddrs == 0..15

NextCmd ==
    \/ \E addr \in CmdAddrs, to_ap \in {0, 1} : CallReadDp(addr, to_ap)
    \/ \E addr \in CmdAddrs, to_ap \in {0, 1}, ign \in BOOLEAN :
          CallWriteDp(addr, 0, to_ap, ign)
    \/ \E bits \in WaitAckBits, data \in WaitReadWords \cup {<<>>} : StepReadDp(bits, data)
    \/ \E bits \in WaitAckBits : StepWriteDp(bits)

\* the interpreter runs a call that was entered on, and the target answers
\* every transaction
RunCall ==
    \/ \E bits \in WaitAckBits, data \in WaitReadWords \cup {<<>>} : RunReadDp(bits, data)
    \/ \E bits \in WaitAckBits : RunWriteDp(bits)

\* _apply_dp_parity by itself: a caller applies it to a byte, and then once
\* more to what it returned.  `held` keeps the first result.
ParityInputs == 0..255

ApplyDpParity ==
    /\ handler = "SWD"
    /\ call.name = "_apply_dp_parity"
    /\ ret.kind = "pending"
    /\ ret' = RetInt(SWD_ApplyDpParity(call.args[1]))
    /\ UNCHANGED <<prim, builtin, handler, config, config0, call, tx, rx, out, store, rf, mode, written, given, swdvars>>

ApplyDpParityAgain ==
    /\ handler = "SWD"
    /\ call.name = "_apply_dp_parity"
    /\ ret.kind = "int"
    /\ held.kind = "none"
    /\ held' = ret
    /\ ret' = RetInt(SWD_ApplyDpParity(ret.val))
    /\ UNCHANGED <<prim, builtin, handler, config, config0, call, tx, rx, out, store, rf, mode, written, given,
                   stack, wire, txns, waits, depth>>

NextParity == ApplyDpParity \/ ApplyDpParityAgain

-----------------------------------------------------------------------------
(* The system *)

NoCall == Call("__init__", <<>>)

\* the state after the constructor of handler class h returned, in a build
\* where a primitive takes p nested calls and a call of a built-in b
InitBuild(h, p, b) ==
    /\ handler = h
    /\ config = (IF h = "MMC" THEN MMC_DEFAULT_CONFIG
                 ELSE IF h = "SDIO" THEN SDIO_DEFAULT_CONFIG
                 ELSE IF h = "SWD" THEN SWD_CONFIG
                 ELSE 0)
    /\ config0 = config
    /\ call = NoCall
    /\ tx = <<>> /\ rx = <<>> /\ out = <<>>
    /\ ret = RetNone
    /\ store = <<>>
    /\ written = <<>> /\ given = NoneGiven /\ rf = 0 /\ mode = 0
    /\ stack = <<>> /\ wire = <<>> /\ txns = <<>> /\ waits = 0 /\ depth = <<>>
    /\ prim = p /\ builtin = b
    /\ held = RetNone

\* the same for calls made far from the interpreter's recursion limit,
\* where the build makes no difference
InitOf(h) == InitBuild(h, 1, 0)

Init == \E h \in {"MMC", "SDIO", "NFC", "SWD"} : InitOf(h)

Next == NextMMC \/ NextSDIO \/ NextNFC \/ NextSWD

Spec == Init /\ [][Next]_vars

\* an MMC or an SDIO handler
InitCard == \E h \in {"MMC", "SDIO"} : InitOf(h)
NextCard == NextMMC \/ NextSDIO
SpecCard == InitCard /\ [][NextCard]_vars

\* an NFC handler
InitNFC == InitOf("NFC")
SpecNFC == InitNFC /\ [][NextNFC]_vars

\* an SWD handler
InitSWD == InitOf("SWD")
SpecSWD == InitSWD /\ [][NextSWD]_vars

\* an SWD handler asked for every register address
SpecCmd == InitSWD /\ [][NextCmd]_vars

\* an SWD handler whose calls are made close to the recursion limit of some
\* build, and run on until they end
InitWait == \E p \in PrimFrames, b \in BuiltinFrames : InitBuild("SWD", p, b)
SpecWait == InitWait /\ [][NextWait]_vars /\ WF_vars(RunCall)

\* _apply_dp_parity of an SWD handler, for every input byte
InitParity ==
    \E value \in ParityInputs :
        /\ handler = "SWD"
        /\ config = SWD_CONFIG /\ config0 = SWD_CONFIG
        /\ call = Call("_apply_dp_parity", <<value>>)
        /\ ret = RetPending
        /\ tx = <<>> /\ rx = <<>> /\ out = <<>>
        /\ store = <<>> /\ written = <<>> /\ given = NoneGiven /\ rf = 0 /\ mode = 0
        /\ stack = <<>> /\ wire = <<>> /\ txns = <<>> /\ waits = 0 /\ depth = <<>>
        /\ prim = 1 /\ builtin = 0
        /\ held = RetNone
SpecParity == InitParity /\ [][NextParity]_vars

-----------------------------------------------------------------------------
(* Construction of an MMC or an SDIO handler.  Protocol.__init__ opens the  *)
(* connection, has the adapter enter binary mode, sends the mode byte and   *)
(* reads the 4-byte mode name back; the log of the call starts at the mode  *)
(* byte.  InitOf(h) above is the state a successful construction leaves,    *)
(* with the log of the constructor's exchange dropped.                      *)

\* the 4 bytes the adapter echoes: b"MMC1", b"SDI1", b"BBIO"
EchoNames == { <<77, 77, 67, 49>>, <<83, 68, 73, 49>>, <<66, 66, 73, 79>> }

\* Protocol.__init__(name, fname, mode_byte, port): the mode handshake
Protocol_Init(name, mode_byte, echo) ==
    [tx |-> << mode_byte >>, rx |-> << echo >>, ok |-> (echo = name)]

\* MMC.__init__
MMC_Init(echo) ==
    LET base == Protocol_Init(<<77, 77, 67, 49>>, <<13>>, echo) IN
    [config |-> MMC_DEFAULT_CONFIG, tx |-> base.tx, rx |-> base.rx,
     ret |-> IF base.ok THEN RetNone ELSE RetRaise("ConfigurationError", 0)]

\* SDIO.__init__
SDIO_Init(echo) ==
    LET base == Protocol_Init(<<83, 68, 73, 49>>, <<14>>, echo) IN
    [config |-> SDIO_DEFAULT_CONFIG, tx |-> base.tx, rx |-> base.rx,
     ret |-> IF base.ok THEN RetNone ELSE RetRaise("ConfigurationError", 0)]

\* a caller constructs a handler of class h; a construction that raises
\* leaves no handler
Construct(h, r) ==
    /\ handler = "none"
    /\ handler' = (IF r.ret.kind = "raise" THEN "none" ELSE h)
    /\ config' = r.config /\ config0' = r.config
    /\ tx' = r.tx /\ rx' = r.rx /\ ret' = r.ret
    /\ out' = <<>>
    /\ call' = NoCall
    /\ UNCHANGED <<prim, builtin, store, rf, mode, written, given, swdvars>>

ConstructMMC(echo) ==
    /\ echo \in EchoNames
    /\ Construct("MMC", MMC_Init(echo))

ConstructSDIO(echo) ==
    /\ echo \in EchoNames
    /\ Construct("SDIO", SDIO_Init(echo))

\* no handler constructed yet
InitConstruct ==
    /\ handler = "none"
    /\ config = 0 /\ config0 = 0
    /\ call = Call("none", <<>>)
    /\ tx = <<>> /\ rx = <<>> /\ out = <<>>
    /\ ret = RetNone
    /\ store = <<>> /\ written = <<>> /\ given = NoneGiven /\ rf = 0 /\ mode = 0
    /\ stack = <<>> /\ wire = <<>> /\ txns = <<>> /\ waits = 0 /\ depth = <<>>
    /\ prim = 1 /\ builtin = 0
    /\ held = RetNone

NextConstruct ==
    \/ \E echo \in EchoNames : ConstructMMC(echo)
    \/ \E echo \in EchoNames : ConstructSDIO(echo)
    \/ NextCard

\* an MMC or an SDIO handler from before its construction on
SpecConstruct == InitConstruct /\ [][NextConstruct]_vars

-----------------------------------------------------------------------------
(* Properties *)

\* the last call was the bus_width setter of an MMC or SDIO handler
IsBusWidthSet == handler \in {"MMC", "SDIO"} /\ call.name = "bus_width.set"

\* the bus_width getter of the handler at hand
BusWidthGet(cfg) ==
    IF handler = "MMC" THEN MMC_BusWidthGet(cfg) ELSE SDIO_BusWidthGet(cfg)

\* C1: for the MMC and the SDIO handler, a bus_width setter call with a value
\* other than 1 or 4 writes no configure command byte to the adapter, reads no
\* acknowledgment byte and raises no exception.
C1_InvalidWidthSendsNothing ==
    (IsBusWidthSet /\ call.args[1] \notin {1, 4}) =>
        (tx = <<>> /\ rx = <<>> /\ ret.kind # "raise")

\* C2: the MMC/SDIO bus_width setter accepts exactly {1, 4}: setting 1 clears
\* bit 0 of the cached configuration word, setting 4 sets it, and the getter
\* then returns the value set; any other input leaves the configuration word,
\* and so what the getter returns, as it was before the call.
C2_BusWidthSetter ==
    IsBusWidthSet =>
        /\ call.args[1] = 1 => (config % 2 = 0 /\ BusWidthGet(config) = 1)
        /\ call.args[1] = 4 => (config % 2 = 1 /\ BusWidthGet(config) = 4)
        /\ call.args[1] \notin {1, 4} =>
              (config = config0 /\ BusWidthGet(config) = BusWidthGet(config0))

\* C2 witness: a bus width of 4 (bit 0 set) was changed by setting 1
C2_Witness ==
    /\ IsBusWidthSet
    /\ call.args[1] = 1
    /\ config0 % 2 = 1
    /\ config % 2 = 0

\* C3: the SDIO frequency setter accepts exactly {0, 1}: setting 1 sets bit 1
\* of the cached configuration word, setting 0 clears it, and in both cases
\* exactly one configure command byte, 0x80 OR'd with the updated word, is
\* written to the adapter; another value leaves the word as it was.
C3_FrequencySetter ==
    (handler = "SDIO" /\ call.name = "frequency.set") =>
        /\ call.args[1] = 1 => (config \div 2) % 2 = 1
        /\ call.args[1] = 0 => (config \div 2) % 2 = 0
        /\ call.args[1] \in {0, 1} =>
              tx = << <<128 + config>> >>
        /\ call.args[1] \notin {0, 1} => config = config0

\* C3 witness: frequency set to 1 on a handler whose bus width is 4
C3_Witness ==
    /\ handler = "SDIO" /\ call.name = "frequency.set"
    /\ call.args[1] = 1
    /\ config0 = 1
    /\ config = 3
    /\ tx = << <<131>> >>

\* the 4 bytes of a 32-bit number, most significant first
BigEndian4(n) ==
    << n \div 16777216, (n \div 65536) % 256, (n \div 256) % 256, n % 256 >>

\* what a read of block b must return: the payload of the last write of b
\* that returned True, or the blank block
LastWritten(b) == IF b \in DOMAIN written THEN written[b] ELSE BlankBlock

\* C7: against an adapter that stores written blocks, an MMC write(data,
\* block_num) answered with status 1 returns True, and an MMC read(block_num)
\* answered with status 1 returns the 512 bytes of the last successful write
\* of that block number, whatever was written to other block numbers since;
\* both frame the block number as 4 bytes, most significant first.
C7_WriteReadRoundTrip ==
    handler = "MMC" =>
        /\ call.name = "write" =>
              /\ tx[2] = BigEndian4(call.args[2])
              /\ rx = << <<1>> >> => ret = RetBool(TRUE)
        /\ call.name = "read" =>
              /\ tx[2] = BigEndian4(call.args[1])
              /\ rx[1] = <<1>> =>
                    /\ ret.kind = "bytes"
                    /\ Len(ret.val) = 512
                    /\ ret.val = LastWritten(call.args[1])

\* C7 witness: two block numbers hold different payloads and a read of one
\* returns its own
C7_Witness ==
    /\ handler = "MMC" /\ call.name = "read" /\ call.args[1] = 16777216
    /\ rx[1] = <<1>>
    /\ DOMAIN written = {1, 16777216}
    /\ written[1] # written[16777216]
    /\ ret.val = written[16777216]

\* C8: SDIO send_short and send_long return None whenever the status byte is
\* not 1 and then read nothing after the status byte; when the status byte is
\* 1 they return exactly the 4 (send_short) or 16 (send_long) bytes read next.
C8_SendReplies ==
    (handler = "SDIO" /\ call.name \in {"send_short", "send_long"}) =>
        /\ Len(rx[1]) = 1
        /\ rx[1] # <<1>> => (ret = RetNone /\ Len(rx) = 1)
        /\ rx[1] = <<1>> =>
              /\ Len(rx) = 2
              /\ ret = RetBytes(rx[2])
              /\ Len(ret.val) = (IF call.name = "send_short" THEN 4 ELSE 16)

\* C8 witness: send_long answered with status 255 returned None
C8_Witness ==
    /\ handler = "SDIO" /\ call.name = "send_long"
    /\ rx = << <<255>> >>
    /\ ret = RetNone

\* C9: NFC write(data, crc) with a payload of 0 to 255 bytes writes, in
\* order, the command byte 0x05, the CRC flag byte, a length byte equal to
\* len(data) and the payload; it then reads one length byte L and returns
\* exactly the next L bytes.
C9_NfcWriteFraming ==
    (handler = "NFC" /\ call.name = "write" /\ Len(call.args[1]) <= 255) =>
        /\ tx = << <<5>>, <<call.args[2]>>, <<Len(call.args[1])>>, call.args[1] >>
        /\ Len(rx) = 2
        /\ Len(rx[1]) = 1
        /\ Len(rx[2]) = rx[1][1]
        /\ ret = RetBytes(rx[2])

\* C9 witness: a 255-byte payload was sent and the adapter declared no reply
C9_Witness ==
    /\ handler = "NFC" /\ call.name = "write"
    /\ Len(call.args[1]) = 255
    /\ tx[3] = <<255>>
    /\ rx = << <<0>>, <<>> >>
    /\ ret = RetBytes(<<>>)

\* the number of set bits among bits 1 to 4
ParityBits(v) == Bit(v, 1) + Bit(v, 2) + Bit(v, 3) + Bit(v, 4)

\* C10: _apply_dp_parity returns its input with bit 5 set when the number of
\* set bits among bits 1 to 4 is odd and returns it unchanged otherwise (so
\* for an input with bit 5 clear, bit 5 of the result is set exactly when
\* that number is odd), and applied to its own result it returns that result.
C10_ParityIdempotent ==
    (call.name = "_apply_dp_parity" /\ ret.kind = "int") =>
        LET v     == call.args[1]
            first == IF held.kind = "int" THEN held.val ELSE ret.val
        IN  /\ \A k \in (0..7) \ {5} : Bit(first, k) = Bit(v, k)
            /\ Bit(first, 5) = 1 <=> (Bit(v, 5) = 1 \/ ParityBits(v) % 2 = 1)
            /\ first < 256
            /\ held.kind = "int" => ret.val = held.val

\* C10 witness: input 2 (bit 5 clear, one bit among bits 1 to 4) became 34,
\* and 34 stayed 34 on the second application
C10_Witness ==
    /\ call = Call("_apply_dp_parity", <<2>>)
    /\ held = RetInt(34)
    /\ ret = RetInt(34)

\* the last call was a setter of an MMC or SDIO handler with a value the
\* setter accepts
IsValidSetterCall ==
    /\ handler \in {"MMC", "SDIO"}
    /\ \/ call.name = "bus_width.set" /\ call.args[1] \in {1, 4}
       \/ handler = "SDIO" /\ call.name = "frequency.set" /\ call.args[1] \in {0, 1}

\* C11: in the MMC and SDIO handlers a configuration change is not applied
\* until the configure exchange returns the acknowledgment byte 1: when a
\* setter call with a valid value gets any other acknowledgment byte, an
\* error is logged, no exception is raised, and the cached configuration
\* word the getters report is the one from before the call.
C11_UnackedChangeNotApplied ==
    (IsValidSetterCall /\ rx # << <<1>> >>) =>
        /\ out = << "error: Error setting config." >>
        /\ ret.kind # "raise"
        /\ config = config0

\* C12: constructing an MMC or an SDIO handler sends, after the mode
\* handshake and before the constructor returns, one configure command: the
\* byte 0x80 OR'd with the default configuration word 0.
C12_ConstructorPushesConfig ==
    (handler \in {"MMC", "SDIO"} /\ call = NoCall) =>
        /\ Len(tx) = 2
        /\ tx[2] = <<128>>

\* the last call was a block read or a block write of an MMC or SDIO handler
IsBlockRead == handler \in {"MMC", "SDIO"} /\ call.name = "read"
IsBlockWrite == handler \in {"MMC", "SDIO"} /\ call.name = "write"

\* C17: MMC read and SDIO read consume the 512-byte payload only when the
\* status byte is 1, and return those 512 bytes; for every other status they
\* return an empty byte string and read nothing after the status byte.  MMC
\* write and SDIO write return True if and only if the status byte is 1.  So
\* against an adapter that sends a payload only after status 1, the handler
\* has read every byte the adapter sent when the operation returns.
C17_PayloadOnlyOnStatusOne ==
    /\ IsBlockRead =>
          /\ Len(rx[1]) = 1
          /\ rx[1] = <<1>> =>
                (Len(rx) = 2 /\ Len(rx[2]) = 512 /\ ret = RetBytes(rx[2]))
          /\ rx[1] # <<1>> => (Len(rx) = 1 /\ ret = RetBytes(<<>>))
    /\ IsBlockWrite =>
          /\ Len(rx) = 1 /\ Len(rx[1]) = 1
          /\ ret.kind = "bool"
          /\ ret.val <=> rx[1] = <<1>>
    /\ (IsBlockRead \/ IsBlockWrite) =>
          Flatten(rx) = AdapterSends(handler, store, Flatten(tx), rx[1][1])

\* C17 witness: an SDIO read answered with status 255 returned the empty
\* byte string after reading the one byte the adapter sent
C17_Witness ==
    /\ handler = "SDIO" /\ call.name = "read"
    /\ tx[1] = <<13>>
    /\ rx = << <<255>> >>
    /\ ret = RetBytes(<<>>)

\* the last call was a setter of an MMC or SDIO handler
IsSetterCall ==
    /\ handler \in {"MMC", "SDIO"}
    /\ call.name \in {"bus_width.set", "frequency.set"}

\* C19: after any sequence of bus_width / frequency setter calls with any
\* arguments and acknowledgments, the cached configuration word is in 0..1
\* for MMC and in 0..3 for SDIO, every configure command byte sent is in
\* 0x80..0x83, and the most recently sent configure command byte is 0x80
\* OR'd with the current cached word: every setter call sends that byte as
\* its one write, and no other call changes the word or sends a command
\* byte from 0x80 up.
C19_ConfigWordInRange ==
    /\ [](/\ handler = "MMC" => config \in 0..1
          /\ handler = "SDIO" => config \in 0..3)
    /\ [](IsSetterCall =>
            /\ Len(tx) = 1 /\ Len(tx[1]) = 1
            /\ tx[1][1] \in 128..131
            /\ tx[1][1] = 128 + config)
    /\ [][~IsSetterCall' => (config' = config /\ tx'[1][1] < 128)]_vars

\* C19 witness: an SDIO handler with both bits set had an invalid frequency
\* refused, and the configure byte it sent all the same was 0x83
C19_Witness ==
    /\ handler = "SDIO" /\ call = Call("frequency.set", <<2>>)
    /\ config0 = 3 /\ config = 3
    /\ tx = << <<131>> >>
    /\ rx # << <<1>> >>

\* the value a getter returns when its setter was last given what `g` holds
LastGiven(g, default) == IF g = <<>> THEN default ELSE g[1]

\* C21: the SDIO bus_width setter never changes bit 1 of the configuration
\* word and the SDIO frequency setter never changes bit 0, whatever the
\* argument and the acknowledgment; so after any interleaving of the two
\* setters the bus_width getter returns the last of 1 and 4 its setter was
\* given (1 when none was) and the frequency getter the last of 0 and 1
\* its setter was given (0 when none was).
C21_SettersKeepOtherBit ==
    /\ [][(handler = "SDIO" /\ call'.name = "bus_width.set")
            => BitAnd(config', 2) = BitAnd(config, 2)]_vars
    /\ [][(handler = "SDIO" /\ call'.name = "frequency.set")
            => BitAnd(config', 1) = BitAnd(config, 1)]_vars
    /\ [](handler = "SDIO" =>
            /\ SDIO_BusWidthGet(config) = LastGiven(given.bus_width, 1)
            /\ SDIO_FrequencyGet(config) = LastGiven(given.frequency, 0))

\* C21 witness: an SDIO handler set to width 4 and then to the fast clock
\* is given the invalid width 5, and the getters still return 4 and 1
C21_Witness ==
    /\ handler = "SDIO" /\ call = Call("bus_width.set", <<5>>)
    /\ given = [bus_width |-> <<4>>, frequency |-> <<1>>]
    /\ config0 = 3
    /\ SDIO_BusWidthGet(config) = 4 /\ SDIO_FrequencyGet(config) = 1

-----------------------------------------------------------------------------
(* Properties of the SWD handler.  txns[i] is the i-th invocation of        *)
(* read_dp or write_dp the call made, and wire[txns[i].at] the first        *)
(* primitive that invocation invoked.                                       *)

\* the number a target's 4 bytes stand for, least significant byte first
\* the 32-bit word with top byte hi and low 24 bits low, carried as the
\* model carries words
Carried(hi, low) == (IF hi >= 128 THEN hi - 256 ELSE hi) * 16777216 + low

LittleEndian4(d) == Carried(d[4], d[1] + 256 * d[2] + 65536 * d[3])

\* the index after the last primitive of invocation i
TxnEnd(i) == IF i < Len(txns) THEN txns[i + 1].at ELSE Len(wire) + 1

\* the primitives invocation i invoked
TxnWire(i) == SubSeq(wire, txns[i].at, TxnEnd(i) - 1)

\* the last call was read_dp, or write_dp with the status checked
IsCheckedDpCall ==
    /\ handler = "SWD"
    /\ \/ call.name = "read_dp"
       \/ call.name = "write_dp" /\ call.args[4] = FALSE

\* invocation i is the call's own transaction: same register, AP flag, value
IsOwnTxn(i) ==
    /\ txns[i].why = "call"
    /\ txns[i].addr = call.args[1]
    /\ call.name = "read_dp" =>
          (txns[i].op = "read" /\ txns[i].to_ap = call.args[2])
    /\ call.name = "write_dp" =>
          /\ txns[i].op = "write" /\ txns[i].ignore = FALSE
          /\ txns[i].value = call.args[2] /\ txns[i].to_ap = call.args[3]

\* invocation i is an ABORT write acknowledged OK: value 0x1F to DP register
\* 0, status checked, on the wire the command byte 0x81, the three status
\* bits, two clocks, the bytes 1F 00 00 00 and the parity byte 01
IsOkAbortWrite(i) ==
    /\ txns[i].why = "abort"
    /\ txns[i].op = "write" /\ txns[i].addr = 0 /\ txns[i].value = 31
    /\ txns[i].to_ap = 0 /\ txns[i].ignore = FALSE
    /\ txns[i].status = 1
    /\ TxnWire(i) = << WireWrite(<<129>>), WireReadBit(1), WireReadBit(0),
                       WireReadBit(0), WireClocks(2),
                       WireWrite(<<31, 0, 0, 0>>), WireWrite(<<1>>) >>

\* the responder of C4: WAIT or OK to the call's transaction, OK to every
\* ABORT write
WaitThenOkResponder ==
    \A i \in 1..Len(txns) :
        /\ txns[i].why = "abort" => txns[i].status = 1
        /\ txns[i].why = "call" => txns[i].status \in {1, 2}

\* C4: read_dp and write_dp (status checked), against a responder that only
\* answers WAIT or OK to the transaction and OK to every ABORT write: the
\* invocations made are the transaction and ABORT writes in turn, each ABORT
\* write right after an attempt answered WAIT and before the next attempt of
\* the same transaction, so one ABORT write per WAIT; the call returns on the
\* attempt answered OK, read_dp with the value read in that attempt, write_dp
\* having sent its value and parity.
C4_AbortPerWait ==
    (IsCheckedDpCall /\ WaitThenOkResponder) =>
        /\ \A i \in 1..Len(txns) :
              /\ i % 2 = 1 => IsOwnTxn(i)
              /\ i % 2 = 0 => (IsOkAbortWrite(i) /\ txns[i - 1].status = 2)
              /\ (i % 2 = 1 /\ i < Len(txns)) => txns[i].status = 2
        /\ ret.kind = "pending" <=> stack # <<>>
        /\ ret.kind # "pending" =>
              /\ Len(txns) = 2 * waits + 1
              /\ Cardinality({i \in 1..Len(txns) : txns[i].why = "abort"}) = waits
              /\ txns[Len(txns)].status = 1
              /\ call.name = "read_dp" =>
                    ret = RetInt(LittleEndian4(txns[Len(txns)].data))
              /\ call.name = "write_dp" => ret = RetNone

\* C4 witness: a read_dp answered WAIT twice and then OK returned
C4_Witness ==
    /\ IsCheckedDpCall /\ WaitThenOkResponder
    /\ call.name = "read_dp"
    /\ waits = 2
    /\ Len(txns) = 5
    /\ ret = RetInt(305419896)

\* invocation i had its status checked and was answered neither OK nor WAIT
IsFaulted(i) == txns[i].ignore = FALSE /\ txns[i].status \notin {1, 2}

\* C5: when an invocation of read_dp or write_dp with the status checked is
\* answered with a status that is neither 1 nor 2, the call fails with a
\* ValueError carrying that status; the invocation invoked the command byte
\* write, the three status bit reads (and write_dp's two clocks) and then a
\* sync, so no data was read or written; no invocation follows it, neither a
\* retry nor an ABORT write.  A call fails in no other case.
C5_FaultRaises ==
    handler = "SWD" =>
        /\ \A i \in 1..Len(txns) :
              IsFaulted(i) =>
                  /\ i = Len(txns)
                  /\ stack = <<>>
                  /\ ret = RetRaise("ValueError", txns[i].status)
                  /\ Len(TxnWire(i)) = (IF txns[i].op = "read" THEN 5 ELSE 6)
                  /\ TxnWire(i)[1][1] = "write"
                  /\ \A k \in 2..4 : TxnWire(i)[k][1] = "read_bit"
                  /\ txns[i].op = "write" => TxnWire(i)[5] = WireClocks(2)
                  /\ wire[Len(wire)] = WireWrite(<<0>>)
        /\ ret.kind = "raise" => (txns # <<>> /\ IsFaulted(Len(txns)))

\* C5 witness: a write_dp answered FAULT (4) failed after its sync
C5_Witness ==
    /\ handler = "SWD" /\ call.name = "write_dp" /\ call.args[4] = FALSE
    /\ Len(txns) = 1
    /\ txns[1].status = 4
    /\ ret = RetRaise("ValueError", 4)
    /\ Len(wire) = 6

\* every invocation so far was acknowledged OK
AllOk == \A i \in 1..Len(txns) : txns[i].status = 1

\* C6: read_ap(address, bank), every transaction acknowledged OK, makes
\* exactly three invocations in this order: a write of DP register 8 with
\* (address << 24) | (bank & 0xF0), an AP-flagged read of address
\* (bank & 0b1100), and a read of DP register 0xC; it returns the value of
\* the last read.
C6_ReadApSequence ==
    (handler = "SWD" /\ call.name = "read_ap" /\ AllOk) =>
        LET address == call.args[1]
            bank    == call.args[2]
            n       == Len(txns)
        IN  /\ n <= 3
            /\ n >= 1 =>
                  /\ txns[1].op = "write" /\ txns[1].addr = 8 /\ txns[1].to_ap = 0
                  /\ txns[1].value = Carried(address, ((bank \div 16) % 16) * 16)
                  /\ txns[1].ignore = FALSE
            /\ n >= 2 =>
                  /\ txns[2].op = "read" /\ txns[2].to_ap = 1
                  /\ txns[2].addr = ((bank \div 4) % 4) * 4
            /\ n >= 3 =>
                  /\ txns[3].op = "read" /\ txns[3].to_ap = 0 /\ txns[3].addr = 12
            /\ ret.kind # "pending" <=> n = 3
            /\ n = 3 => ret = RetInt(LittleEndian4(txns[3].data))

\* C6 witness: the dummy read and the RDBUFF read got different values and
\* read_ap returned RDBUFF's
C6_Witness ==
    /\ handler = "SWD" /\ call.name = "read_ap" /\ AllOk
    /\ call.args = <<127, 252>>
    /\ Len(txns) = 3
    /\ txns[1].value = 2130706672
    /\ txns[2].data = <<120, 86, 52, 18>>
    /\ txns[3].data = <<255, 255, 255, 127>>
    /\ ret = RetInt(2147483647)

\* the target answered WAIT to every invocation the call made
AllWait == txns # <<>> /\ \A i \in 1..Len(txns) : txns[i].status = 2

\* the call ended on the interpreter's call depth
HitDepth == ret = RetRaise("RecursionError", 0)

\* C13, as claimed: the WAIT retry has no ceiling, so a read_dp or write_dp
\* call (status checked) ends only by returning or by failing with a
\* Protocol error (ValueError), and against a target that answers WAIT to
\* every transaction it never ends.
C13_WaitRetryNoCeiling ==
    IsCheckedDpCall =>
        /\ ret.kind = "raise" => ret.val[1] = "ValueError"
        /\ AllWait => ret.kind = "pending"

\* the last invocation the target answered
LastTxn == txns[Len(txns)]

\* the nested calls an invocation of read_dp or write_dp takes below itself
\* to run its first primitive: those of _apply_dp_parity with its
\* built-ins, or those of a primitive
Need == IF prim > 1 + builtin THEN prim ELSE 1 + builtin

\* C13, amended: the WAIT retry has no ceiling of its own, but every WAIT
\* nests the ABORT write and the retry one call deeper.  A read_dp or
\* write_dp call (status checked) always ends: it returns, fails with a
\* Protocol error (ValueError), or fails with RecursionError, and that only
\* in an invocation made so close to the interpreter's limit that
\* _apply_dp_parity, a primitive, or the write of _sync one call deeper,
\* does not fit; an invocation is never deeper below the call than the call
\* got WAIT answers.  Against a target that answers WAIT to every
\* transaction the call makes its transaction and then ABORT writes only,
\* each nested one call deeper than the one before; it never returns a
\* value and never fails with a Protocol error, and ends with
\* RecursionError.
C13_WaitRetryUntilDepth ==
    /\ [](IsCheckedDpCall =>
            /\ ret.kind = "raise" => (ret.val[1] = "ValueError" \/ HitDepth)
            /\ (HitDepth /\ txns # <<>>) =>
                  /\ LastTxn.depth + Need = MaxDepth
                  /\ LastTxn.depth - txns[1].depth <= waits
            /\ AllWait =>
                  /\ \A i \in 2..Len(txns) :
                        /\ txns[i].why = "abort" /\ txns[i].op = "write"
                        /\ txns[i].addr = 0 /\ txns[i].value = 31
                        /\ txns[i].depth = txns[i - 1].depth + 1
                  /\ ret.kind = "pending" => LastTxn.depth + prim < MaxDepth
                  /\ ret.kind # "pending" => HitDepth)
    /\ [][(IsCheckedDpCall /\ stack # <<>> /\ HitDepth')
            => Head(depth) + Need >= MaxDepth]_vars
    /\ []((IsCheckedDpCall /\ ret.kind = "pending") => <>(ret.kind # "pending"))

\* C13 witness: where a primitive takes two nested calls, a read_dp made
\* three calls short of the limit and answered WAIT every time ended with
\* RecursionError in its nested ABORT write, whose _sync did not fit: the
\* last primitive that ran is that write's two clocks
C13_Witness ==
    /\ IsCheckedDpCall /\ call.name = "read_dp"
    /\ prim = 2
    /\ AllWait
    /\ Len(txns) = 2
    /\ txns[1].op = "read" /\ txns[1].depth = MaxDepth - 3
    /\ txns[2].why = "abort" /\ txns[2].depth = MaxDepth - 2
    /\ wire[Len(wire)] = WireClocks(2)
    /\ HitDepth

\* the command byte invocation i sent: the one byte of its first primitive
CmdByte(i) == TxnWire(i)[1][2][1]

\* invocation i began by writing one byte, and that byte has the start bit
\* (bit 0) and the park bit (bit 7) set and the stop bit (bit 6) clear
HasCmdFrame(i) ==
    /\ TxnWire(i)[1][1] = "write"
    /\ Len(TxnWire(i)[1][2]) = 1
    /\ Bit(CmdByte(i), 0) = 1 /\ Bit(CmdByte(i), 6) = 0 /\ Bit(CmdByte(i), 7) = 1

\* bit 5 of the command byte of invocation i is the parity of its bits 1 to 4
HasCmdParity(i) == Bit(CmdByte(i), 5) = ParityBits(CmdByte(i)) % 2

\* C14, as claimed: in every command byte read_dp and write_dp send, for the
\* addresses 0..15 and the AP flag 0 or 1, with base 0x85 for reads and 0x81
\* for writes: bit 1 is the AP flag, bits 2-3 carry address bits 2-3 and
\* bit 5 is the parity.
C14_AddressInBits2And3 ==
    handler = "SWD" =>
        \A i \in 1..Len(txns) :
            /\ HasCmdFrame(i)
            /\ Bit(CmdByte(i), 1) = txns[i].to_ap
            /\ Bit(CmdByte(i), 2) = Bit(txns[i].addr, 2)
            /\ Bit(CmdByte(i), 3) = Bit(txns[i].addr, 3)
            /\ HasCmdParity(i)

\* C14, amended: in every command byte read_dp and write_dp send, for the
\* addresses 0..15 and the AP flag 0 or 1: the base value is 0x85 for reads
\* and 0x81 for writes (bit 2 is set in reads and clear in writes), bit 1 is
\* the AP flag, bits 3-4 carry address bits 2-3 of the target register, and
\* bit 5 is the parity of bits 1 to 4.
C14_AddressInBits3And4 ==
    handler = "SWD" =>
        \A i \in 1..Len(txns) :
            /\ HasCmdFrame(i)
            /\ Bit(CmdByte(i), 1) = txns[i].to_ap
            /\ Bit(CmdByte(i), 2) = (IF txns[i].op = "read" THEN 1 ELSE 0)
            /\ Bit(CmdByte(i), 3) = Bit(txns[i].addr, 2)
            /\ Bit(CmdByte(i), 4) = Bit(txns[i].addr, 3)
            /\ HasCmdParity(i)
            /\ CmdByte(i) = (IF txns[i].op = "read" THEN 133 ELSE 129)
                              + 2 * txns[i].to_ap
                              + 8 * Bit(txns[i].addr, 2) + 16 * Bit(txns[i].addr, 3)
                              + 32 * Bit(CmdByte(i), 5)

\* C14 witness: a write of register 10 sent 0xB1: address bit 3 in bit 4,
\* bit 2 clear, parity set
C14_Witness ==
    /\ handler = "SWD" /\ Len(txns) = 1
    /\ call.name = "write_dp" /\ call.args[1] = 10 /\ call.args[3] = 0
    /\ CmdByte(1) = 177

\* the 4 bytes of a 32-bit value, least significant first
LowFirst4(v) ==
    << v % 256, (v \div 256) % 256, (v \div 65536) % 256, (v \div 16777216) % 256 >>

\* the number of set bits of a value below 2^31
SetBits(v) == Cardinality({k \in 0..30 : Bit(v, k) = 1}) + (IF v < 0 THEN 1 ELSE 0)

\* what invocation i, a write_dp, invoked first: the command byte write, the
\* three status bit reads, and then two clocks
HasWriteHead(i) ==
    /\ Len(TxnWire(i)) >= 5
    /\ TxnWire(i)[1][1] = "write"
    /\ \A k \in 2..4 : TxnWire(i)[k][1] = "read_bit"
    /\ TxnWire(i)[5] = WireClocks(2)

\* what invocation i invoked after the two clocks
AfterClocks(i) == SubSeq(TxnWire(i), 6, Len(TxnWire(i)))

\* the value of invocation i and its parity byte, as write_dp transmits them
ValueAndParity(i) ==
    << WireWrite(LowFirst4(txns[i].value)),
       WireWrite(<< SetBits(txns[i].value) % 2 >>) >>

\* C15: write_dp always emits 2 idle clocks after reading the 3 status bits
\* and before anything else.  With the status checked, the 4 value bytes and
\* the parity byte are transmitted only in an attempt whose status was 1, so
\* a call that ends successfully transmitted the caller's value exactly once
\* (ABORT writes aside).  With ignore_status set, value and parity are
\* transmitted for every status, 2 and fault values included, with no retry,
\* no ABORT write and no Protocol error.
C15_WriteDpValueOnce ==
    handler = "SWD" =>
        /\ \A i \in 1..Len(txns) :
              txns[i].op = "write" =>
                  /\ HasWriteHead(i)
                  /\ (txns[i].ignore \/ txns[i].status = 1) =>
                        AfterClocks(i) = ValueAndParity(i)
                  /\ (~txns[i].ignore /\ txns[i].status # 1) =>
                        AfterClocks(i) = << WireWrite(<<0>>) >>
        /\ (call.name = "write_dp" /\ ~call.args[4] /\ stack = <<>> /\ ret = RetNone) =>
              /\ Cardinality({i \in 1..Len(txns) :
                     IsOwnTxn(i) /\ AfterClocks(i) = ValueAndParity(i)}) = 1
              /\ IsOwnTxn(Len(txns)) /\ txns[Len(txns)].status = 1
        /\ (call.name = "write_dp" /\ call.args[4]) =>
              /\ Len(txns) <= 1
              /\ Len(txns) = 1 =>
                    /\ stack = <<>> /\ ret = RetNone
                    /\ txns[1].ignore /\ txns[1].why = "call"
                    /\ Len(wire) = 7

\* C15 witness: a checked write_dp answered WAIT once sent its value in the
\* second attempt only; the ABORT write between sent 0x1F
C15_Witness ==
    /\ handler = "SWD" /\ call.name = "write_dp" /\ ~call.args[4]
    /\ call.args[2] = 305419896
    /\ stack = <<>> /\ ret = RetNone
    /\ Len(txns) = 3
    /\ txns[1].status = 2 /\ AfterClocks(1) = << WireWrite(<<0>>) >>
    /\ txns[2].why = "abort"
    /\ AfterClocks(3) = << WireWrite(<<120, 86, 52, 18>>), WireWrite(<<1>>) >>

\* C16: multidrop_init(addr) emits, in this order: the 15-byte bus_init
\* sequence, a sync zero byte, the 16-byte dormant-to-SWD activation
\* sequence, 4 zero bits, the activation code 0x1A, seven 0xFF bytes, a sync
\* zero byte, and then one write of DP register 0xC with the value addr whose
\* status is ignored: whatever the status, the 4 address bytes and the parity
\* are sent and multidrop_init returns, with no Protocol error and no retry.
C16_MultidropInitSequence ==
    (handler = "SWD" /\ call.name = "multidrop_init") =>
        /\ Len(wire) >= 7
        /\ SubSeq(wire, 1, 7) =
              << << "write", <<255, 255, 255, 255, 255, 255, 123, 158,
                              255, 255, 255, 255, 255, 255, 15>> >>,
                 << "write", <<0>> >>,
                 << "write", <<146, 243, 9, 98, 149, 45, 133, 134,
                              233, 175, 221, 227, 162, 14, 188, 25>> >>,
                 << "write_bits", <<0>>, 4 >>,
                 << "write", <<26>> >>,
                 << "write", <<255, 255, 255, 255, 255, 255, 255>> >>,
                 << "write", <<0>> >> >>
        /\ Len(txns) <= 1
        /\ txns = <<>> => (Len(wire) = 7 /\ ret.kind = "pending")
        /\ Len(txns) = 1 =>
              /\ txns[1].op = "write" /\ txns[1].addr = 12 /\ txns[1].to_ap = 0
              /\ txns[1].value = call.args[1]
              /\ txns[1].at = 8
              /\ Len(wire) = 14
              /\ wire[8] = << "write", <<153>> >>
              /\ \A k \in 9..11 : wire[k][1] = "read_bit"
              /\ wire[12] = << "clocks", <<2>> >>
              /\ wire[13] = << "write", LowFirst4(call.args[1]) >>
              /\ wire[14] = << "write", << SetBits(call.args[1]) % 2 >> >>
              /\ stack = <<>> /\ ret = RetNone

\* C16 witness: the TARGETSEL write of multidrop_init(0x01002927) was
\* answered WAIT and multidrop_init returned after sending 27 29 00 01 and
\* the parity byte 0
C16_Witness ==
    /\ handler = "SWD" /\ call = Call("multidrop_init", <<16787751>>)
    /\ Len(txns) = 1 /\ txns[1].status = 2
    /\ wire[13] = << "write", <<39, 41, 0, 1>> >>
    /\ wire[14] = << "write", <<0>> >>
    /\ ret = RetNone

\* invocation i, a write_dp, transmitted its value
SentValue(i) == txns[i].op = "write" /\ (txns[i].ignore \/ txns[i].status = 1)

\* C18: SWD register values are always exactly 4 bytes, least significant
\* byte first.  write_dp transmits exactly the 4 bytes of the value, LSB
\* first, followed by one parity byte that is 0x01 if the value has an odd
\* number of set bits and 0x00 otherwise.  read_dp on status 1 reads exactly
\* 4 bytes, decodes them LSB first, and sends one sync zero byte before it
\* returns.
C18_FourBytesLsbFirst ==
    handler = "SWD" =>
        /\ \A i \in 1..Len(txns) :
              /\ SentValue(i) =>
                    LET w == TxnWire(i) IN
                    /\ Len(w) = 7
                    /\ w[6][1] = "write" /\ Len(w[6][2]) = 4
                    /\ \A k \in 1..4 :
                          w[6][2][k] = (txns[i].value \div Pow(256, k - 1)) % 256
                    /\ w[7][1] = "write" /\ Len(w[7][2]) = 1
                    /\ w[7][2][1] = (IF SetBits(txns[i].value) % 2 = 1 THEN 1 ELSE 0)
              /\ (txns[i].op = "read" /\ txns[i].status = 1) =>
                    LET w == TxnWire(i) IN
                    /\ Len(w) = 6
                    /\ w[5][1] = "read" /\ Len(w[5][2]) = 4
                    /\ w[5][2] = txns[i].data
                    /\ w[6] = << "write", <<0>> >>
              /\ (txns[i].op = "read" /\ txns[i].status # 1) =>
                    \A k \in 1..Len(TxnWire(i)) : TxnWire(i)[k][1] # "read"
        /\ (call.name = "read_dp" /\ ret.kind # "pending" /\ txns[Len(txns)].status = 1) =>
              LET d == txns[Len(txns)].data IN
              /\ txns[Len(txns)].op = "read"
              /\ ret = RetInt(Carried(d[4], d[1] + 256 * d[2] + 65536 * d[3]))

\* C18 witness: a read_dp read FF FF FF 7F, sent the sync byte and returned
\* 0x7FFFFFFF
C18_Witness ==
    /\ handler = "SWD" /\ call.name = "read_dp"
    /\ Len(txns) = 1 /\ txns[1].status = 1
    /\ Len(wire) = 6
    /\ wire[5] = << "read", <<255, 255, 255, 127>> >>
    /\ wire[6] = << "write", <<0>> >>
    /\ ret = RetInt(2147483647)

\* invocation i is an ABORT write: write_dp(0, 0x1F) with the status checked
IsAbortWrite(i) ==
    /\ txns[i].why = "abort"
    /\ txns[i].op = "write" /\ txns[i].addr = 0 /\ txns[i].value = 31
    /\ txns[i].to_ap = 0 /\ txns[i].ignore = FALSE

\* C20: the ABORT write read_dp / write_dp issue on WAIT is itself a
\* status-checked write_dp.  When it is acknowledged with a status other
\* than 1 or 2, the original call fails with a Protocol error (ValueError)
\* carrying the ABORT's status and the original transaction is not retried;
\* when it is acknowledged with WAIT, a nested ABORT write is issued, one
\* call deeper, before the outer ABORT is retried.
C20_AbortIsCheckedWrite ==
    handler = "SWD" =>
        \A i \in 1..Len(txns) :
            txns[i].why = "abort" =>
                /\ IsAbortWrite(i)
                /\ txns[i].status \notin {1, 2} =>
                      /\ i = Len(txns)
                      /\ stack = <<>>
                      /\ ret = RetRaise("ValueError", txns[i].status)
                /\ (txns[i].status = 2 /\ i = Len(txns)) =>
                      /\ Len(stack) >= 3
                      /\ stack[1] = stack[2] /\ stack[1].why = "abort"
                      /\ depth[1] = txns[i].depth + 1 /\ depth[2] = depth[1]
                /\ (txns[i].status = 2 /\ i < Len(txns)) =>
                      /\ IsAbortWrite(i + 1)
                      /\ txns[i + 1].depth = txns[i].depth + 1
                /\ (txns[i].status = 2 /\ i + 1 < Len(txns) /\ txns[i + 1].status = 1) =>
                      /\ IsAbortWrite(i + 2)
                      /\ txns[i + 2].depth = txns[i].depth + 1

\* C20 witness: a read_dp was answered WAIT, its ABORT write was answered
\* WAIT, the nested ABORT write and the retried ABORT write were answered OK,
\* and the read was then retried and returned
C20_Witness ==
    /\ handler = "SWD" /\ call.name = "read_dp"
    /\ Len(txns) = 5
    /\ txns[1].op = "read" /\ txns[1].status = 2
    /\ txns[2].why = "abort" /\ txns[2].status = 2 /\ txns[2].depth = 2
    /\ txns[3].why = "abort" /\ txns[3].status = 1 /\ txns[3].depth = 3
    /\ txns[4].why = "abort" /\ txns[4].status = 1 /\ txns[4].depth = 3
    /\ txns[5].op = "read" /\ txns[5].status = 1 /\ txns[5].depth = 2
    /\ ret.kind = "int"

=============================================================================
